---- MODULE Spec2Model ----
(***************************************************************************)
(* A model of the schedule-reconciliation and punctuality-aggregation      *)
(* pipeline of bus-metrics-england:                                        *)
(*   src/bus_metrics/aggregation/build_schedules.py  (Schedule_Builder)    *)
(*   src/bus_metrics/aggregation/preprocessing.py    (unzip_GTFS, times)   *)
(*   src/bus_metrics/aggregation/punctuality_rate.py (AggregationTool)     *)
(* Data frames are sequences of records (rows in frame order) where the    *)
(* order or the row count is observable, and sets of records after an      *)
(* operation whose output order polars leaves unspecified (unique,         *)
(* group_by).                                                              *)
(***************************************************************************)
EXTENDS Integers, Sequences, FiniteSets, TLC

VARIABLES
    \* ---- Realtime Loader (build_schedules.py, 179-340)
    realtime_dir,      \* rows of the ping files matching region+date, in glob/concat order
    labelled_real,     \* split_realtime_data: first output
    unlabelled_real,   \* split_realtime_data: second output
    rt_df,             \* build_realtime: first output (labelled, deduplicated, with UID)
    rt_unlabelled,     \* build_realtime: second output
    rt_pc,             \* which realtime operations have run
    \* ---- Timetable Loader (build_schedules.py, 47-177 and 242-291)
    zip_dir,           \* the <region>_<date>.zip archives in timetable_dir
    gtfs_variant,      \* calendar flags and exceptions held by the archives
    txt_dir,           \* the GTFS .txt files in timetable_dir: file -> archive it was extracted from
    self_date,         \* Schedule_Builder.date
    partial_timetable, \* Schedule_Builder.partial_timetable
    time_from,         \* Schedule_Builder.time_from, in half-seconds after midnight
    time_to,           \* Schedule_Builder.time_to, in half-seconds after midnight
    tt_call,           \* the last timetable call: operation, region, date
    tt_tables,         \* the archive whose tables the last call read
    tt_loaded,         \* the frame load_raw_timetable_data returned to the last call
    tt_out,            \* what the last call returned (a table or an error)
    tt_prev,           \* the call before the last one and what it returned, where a caller keeps them
    n_calls,           \* number of timetable calls made
    \* ---- Schedule Reconciler (build_schedules.py, 342-454)
    schedule,          \* punctuality_by_stop: the joined frame with its punctual flag
    stop_punctuality,  \* punctuality_by_stop: the returned stop-level table
    sched_pc,          \* position of the schedule builder script
    \* ---- Geography Aggregator (punctuality_rate.py, 34-133)
    stop_level_punctuality, \* rows of the stop-level punctuality file
    geography_lookup_table, \* rows of the stop-to-geography lookup file
    labelled,          \* the merged frame held by the caller of _reaggregate_punctuality
    geog_df,           \* what the last aggregation call returned (a table or an error)
    outdir,            \* the geography-level file written to outdir
    agg_pc,            \* position of the aggregation
    stored_files,      \* which of the two input files exist
    agg_raised,        \* the exception the last aggregation call raised, if any
    \* ---- Functions called on their own (preprocessing.py, build_lookup.py)
    fn_input,          \* the arguments and stored inputs of the call
    fn_output,         \* what the call returned or raised
    fn_pc,             \* whether the call has been made
    \* ---- Static Data Ingest (setup/ingest_static_data.py, build_lookup.py)
    ing_files,         \* the stored files: file name -> content, NONE when absent
    ing_offset,        \* StaticDataIngest.geoportal_query_params["resultOffset"]
    ing_endpoint,      \* what the GeoPortal endpoints hold and how they report the last page
    ing_today,         \* datetime.now().date()
    ing_call,          \* the last ingest call: operation, target file, what the file held before
    ing_requests,      \* the requests the last ingest call made: <<url, resultOffset>>
    ing_raised         \* the exception the last ingest call raised, if any

rt_vars == <<realtime_dir, labelled_real, unlabelled_real, rt_df, rt_unlabelled, rt_pc>>

tt_vars == <<zip_dir, gtfs_variant, txt_dir, self_date, partial_timetable,
             time_from, time_to, tt_call, tt_tables, tt_loaded, tt_out, tt_prev, n_calls>>

sched_vars == <<schedule, stop_punctuality, sched_pc>>

agg_vars == <<stop_level_punctuality, geography_lookup_table, labelled,
              geog_df, outdir, agg_pc, stored_files, agg_raised>>

fn_vars == <<fn_input, fn_output, fn_pc>>
ing_vars == <<ing_files, ing_offset, ing_endpoint, ing_today, ing_call,
              ing_requests, ing_raised>>

vars == <<rt_vars, tt_vars, sched_vars, agg_vars, fn_vars, ing_vars>>

\* A null cell of a string column (polars null / empty CSV field).
NULL == "<null>"

\* A table that has not been produced yet.
NONE == "<none>"

----------------------------------------------------------------------------
(* Generic helpers *)

\* The set of elements of a sequence.
Range(s) == {s[i] : i \in 1..Len(s)}

\* All sequences over S of length at most n.
SeqsUpTo(S, n) == UNION {[1..k -> S] : k \in 0..n}

\* All permutations of the sequence s (as sequences).
PermutationsOf(s) ==
    {[i \in 1..Len(s) |-> s[p[i]]] :
        p \in {q \in [1..Len(s) -> 1..Len(s)] :
                 \A i, j \in 1..Len(s) : i # j => q[i] # q[j]}}

----------------------------------------------------------------------------
(* Realtime Loader *)

\* Bound: the number of ping rows stored for the region and day.
MaxPings == 3

\* The order polars gives the trip_id strings of the model (lexicographic).
TripRank(t) ==
    CASE t = "T" -> 1
      [] t = "T1" -> 2
      [] t = "T2" -> 3
      [] t = "T_1" -> 4
      [] OTHER -> 0

\* The ping rows the realtime files may hold: fully labelled pings of trip
\* T1 on route R1 at two stops, with two transmission and two ingestion
\* times and two vehicles; a ping of another trip; and pings with trip_id,
\* route_id or both missing.
PingRows ==
    {[time_ingest |-> ti, time_transpond |-> tt, bus_id |-> "B1",
      trip_id |-> "T1", route_id |-> "R1", current_stop |-> cs,
      journey_date |-> 20240221] :
        ti \in {1708515470, 1708515480},
        tt \in {1708515464, 1708515474},
        cs \in {1, 2}}
    \cup
    {[time_ingest |-> 1708515480, time_transpond |-> 1708515474, bus_id |-> "B2",
      trip_id |-> "T1", route_id |-> "R1", current_stop |-> 1,
      journey_date |-> 20240221],
     [time_ingest |-> 1708515470, time_transpond |-> 1708515464, bus_id |-> "B1",
      trip_id |-> "T2", route_id |-> "R1", current_stop |-> 1,
      journey_date |-> 20240221],
     [time_ingest |-> 1708515470, time_transpond |-> 1708515464, bus_id |-> "B1",
      trip_id |-> NULL, route_id |-> NULL, current_stop |-> 1,
      journey_date |-> 20240221],
     [time_ingest |-> 1708515470, time_transpond |-> 1708515464, bus_id |-> "B1",
      trip_id |-> "T1", route_id |-> NULL, current_stop |-> 1,
      journey_date |-> 20240221],
     [time_ingest |-> 1708515470, time_transpond |-> 1708515464, bus_id |-> "B1",
      trip_id |-> NULL, route_id |-> "R1", current_stop |-> 1,
      journey_date |-> 20240221]}

\* pl.concat_str([a, b, c, d], separator="_") on four cells already cast to
\* strings: a null cell makes the result null.
concat_str(a, b, c, d) ==
    IF a = NULL \/ b = NULL \/ c = NULL \/ d = NULL
    THEN NULL
    ELSE a \o "_" \o b \o "_" \o c \o "_" \o d

\* df.filter(trip_id.is_not_null() & route_id.is_not_null())
IsLabelled(p) == p.trip_id # NULL /\ p.route_id # NULL

\* Mutant of IsUnlabelled: "otherwise" (either identifier missing).
IsUnlabelled_EitherNull(p) == p.trip_id = NULL \/ p.route_id = NULL

\* df.filter(trip_id.is_null() & route_id.is_null())
IsUnlabelled(p) == p.trip_id = NULL /\ p.route_id = NULL

\* Schedule_Builder.split_realtime_data: <<labelled_real, unlabelled_real>>.
split_realtime_data(df) ==
    <<SelectSeq(df, IsLabelled), SelectSeq(df, IsUnlabelled)>>

\* Mutant of SortKeyLE: time_ingest sorted before time_transpond.
SortKeyLE_IngestFirst(a, b) ==
    LET ka == <<TripRank(a.trip_id), a.current_stop, a.time_ingest, a.time_transpond>>
        kb == <<TripRank(b.trip_id), b.current_stop, b.time_ingest, b.time_transpond>>
    IN  \/ ka[1] < kb[1]
        \/ ka[1] = kb[1] /\ ka[2] < kb[2]
        \/ ka[1] = kb[1] /\ ka[2] = kb[2] /\ ka[3] < kb[3]
        \/ ka[1] = kb[1] /\ ka[2] = kb[2] /\ ka[3] = kb[3] /\ ka[4] <= kb[4]

\* The sort key of df.sort(["trip_id", "current_stop", "time_transpond",
\* "time_ingest"]), compared lexicographically.
SortKeyLE(a, b) ==
    LET ka == <<TripRank(a.trip_id), a.current_stop, a.time_transpond, a.time_ingest>>
        kb == <<TripRank(b.trip_id), b.current_stop, b.time_transpond, b.time_ingest>>
    IN  \/ ka[1] < kb[1]
        \/ ka[1] = kb[1] /\ ka[2] < kb[2]
        \/ ka[1] = kb[1] /\ ka[2] = kb[2] /\ ka[3] < kb[3]
        \/ ka[1] = kb[1] /\ ka[2] = kb[2] /\ ka[3] = kb[3] /\ ka[4] <= kb[4]

\* The frames df.sort(...) may return: the rows of df in ascending key
\* order; rows equal on all four keys come in any order (maintain_order is
\* not requested).
SortedFrames(df) ==
    {s \in PermutationsOf(df) :
        \A i \in 1..Len(s) - 1 : SortKeyLE(s[i], s[i + 1])}

\* with_columns(concat_str([journey_date, current_stop, trip_id, route_id]).alias("UID"))
WithRealtimeUID(p) ==
    [time_ingest |-> p.time_ingest, time_transpond |-> p.time_transpond,
     bus_id |-> p.bus_id, trip_id |-> p.trip_id, route_id |-> p.route_id,
     current_stop |-> p.current_stop, journey_date |-> p.journey_date,
     UID |-> concat_str(ToString(p.journey_date), ToString(p.current_stop),
                        p.trip_id, p.route_id)]

\* Mutant of UniqueKeepLast: no deduplication.
UniqueKeepLast_KeepAll(s) == {s[i] : i \in 1..Len(s)}

\* df.unique("UID", keep="last"): of the rows with one UID, the one latest
\* in frame order.
UniqueKeepLast(s) ==
    {s[i] : i \in {k \in 1..Len(s) :
                     \A j \in (k + 1)..Len(s) : s[j].UID # s[k].UID}}

\* Schedule_Builder.build_realtime on the loaded frame df, given the frame
\* the sort returned: <<labelled with UID, deduplicated; unlabelled>>.
BuildRealtimeFrom(sorted, unlabelled) ==
    <<UniqueKeepLast([i \in 1..Len(sorted) |-> WithRealtimeUID(sorted[i])]),
      unlabelled>>

\* The timetable variables where no timetable operation runs.
TtIdle ==
    /\ zip_dir = {}
    /\ gtfs_variant = NONE
    /\ txt_dir = NONE
    /\ self_date = NONE
    /\ partial_timetable = FALSE
    /\ time_from = 0
    /\ time_to = 0
    /\ tt_call = NONE
    /\ tt_tables = NONE
    /\ tt_loaded = NONE
    /\ tt_out = NONE
    /\ tt_prev = NONE
    /\ n_calls = 0

RtInit ==
    /\ realtime_dir \in SeqsUpTo(PingRows, MaxPings)
    /\ labelled_real = NONE
    /\ unlabelled_real = NONE
    /\ rt_df = NONE
    /\ rt_unlabelled = NONE
    /\ rt_pc = {}

\* The schedule variables where the schedule builder script does not run.
SchedIdle ==
    /\ schedule = NONE
    /\ stop_punctuality = NONE
    /\ sched_pc = "idle"

\* The call variables where no function is called on its own.
IngIdle ==
    /\ ing_files = NONE
    /\ ing_offset = NONE
    /\ ing_endpoint = NONE
    /\ ing_today = NONE
    /\ ing_call = NONE
    /\ ing_requests = NONE
    /\ ing_raised = NONE

FnIdle ==
    /\ fn_input = NONE
    /\ fn_output = NONE
    /\ fn_pc = "idle"

\* The aggregation variables where no aggregation runs.
AggIdle ==
    /\ stop_level_punctuality = NONE
    /\ geography_lookup_table = NONE
    /\ labelled = NONE
    /\ geog_df = NONE
    /\ outdir = NONE
    /\ agg_pc = "idle"
    /\ stored_files = {}
    /\ agg_raised = NONE

\* A call of split_realtime_data on the loaded frame.
SplitRealtimeData ==
    /\ "split" \notin rt_pc
    /\ labelled_real' = split_realtime_data(realtime_dir)[1]
    /\ unlabelled_real' = split_realtime_data(realtime_dir)[2]
    /\ rt_pc' = rt_pc \cup {"split"}
    /\ UNCHANGED <<realtime_dir, rt_df, rt_unlabelled>>
    /\ UNCHANGED <<tt_vars, sched_vars, agg_vars, fn_vars, ing_vars>>

\* build_realtime(region, date): load, split, sort, UID, unique.
BuildRealtimeCall ==
    /\ "build" \notin rt_pc
    /\ \E sorted \in SortedFrames(split_realtime_data(realtime_dir)[1]) :
         /\ rt_df' = BuildRealtimeFrom(sorted, split_realtime_data(realtime_dir)[2])[1]
         /\ rt_unlabelled' = BuildRealtimeFrom(sorted, split_realtime_data(realtime_dir)[2])[2]
    /\ rt_pc' = rt_pc \cup {"build"}
    /\ UNCHANGED <<realtime_dir, labelled_real, unlabelled_real>>

\* A call of build_realtime(region, date) on its own.
BuildRealtime ==
    /\ BuildRealtimeCall
    /\ UNCHANGED <<tt_vars, sched_vars, agg_vars, fn_vars, ing_vars>>

RtNext == SplitRealtimeData \/ BuildRealtime

InitRealtime == RtInit /\ TtIdle /\ SchedIdle /\ AggIdle /\ FnIdle /\ IngIdle

SpecRealtime == InitRealtime /\ [][RtNext]_vars

\* Ping rows whose trip_id or route_id holds the separator of the UID.
SeparatorPingRows ==
    {[time_ingest |-> 1708515470, time_transpond |-> tt, bus_id |-> "B1",
      trip_id |-> t, route_id |-> r, current_stop |-> 1,
      journey_date |-> 20240221] :
        tt \in {1708515464, 1708515474},
        t \in {"T", "T_1"},
        r \in {"R", "1_R"}}

\* The realtime files of a day whose identifiers hold the separator.
InitSeparator ==
    /\ realtime_dir \in SeqsUpTo(SeparatorPingRows, MaxPings)
    /\ labelled_real = NONE
    /\ unlabelled_real = NONE
    /\ rt_df = NONE
    /\ rt_unlabelled = NONE
    /\ rt_pc = {}
    /\ TtIdle
    /\ SchedIdle
    /\ AggIdle
    /\ FnIdle
    /\ IngIdle

SpecSeparator == InitSeparator /\ [][RtNext]_vars

----------------------------------------------------------------------------
(* Time Normalization (preprocessing.py, 152-219) *)

\* The target dates of the model (format %Y%m%d).
Dates == {"20240221", "20240222"}

\* datetime.strptime(date, "%Y%m%d").strftime("%A").lower()
Weekday(date) ==
    CASE date = "20240221" -> "wednesday"
      [] date = "20240222" -> "thursday"

\* Epoch seconds of 00:00:00 UTC on the date.
DayStartUTC(date) ==
    CASE date = "20240221" -> 1708473600
      [] date = "20240222" -> 1708560000
      [] date = "20240331" -> 1711843200
      [] date = "20240701" -> 1719792000
      [] date = "20241027" -> 1729987200

\* Dates in winter time, the date summer time starts (01:00 becomes
\* 02:00), a date in summer time, and the date summer time ends (02:00
\* becomes 01:00).
ZoneDates == {"20240221", "20240331", "20240701", "20241027"}

\* What Europe/London makes of a wall-clock time of the date: "ok", or
\* "non_existent" in the hour skipped when summer time starts, or
\* "ambiguous" in the hour repeated when it ends.
WallClock(date, secs_of_day) ==
    IF secs_of_day >= 3600 /\ secs_of_day < 7200
    THEN CASE date = "20240331" -> "non_existent"
           [] date = "20241027" -> "ambiguous"
           [] OTHER -> "ok"
    ELSE "ok"

\* Seconds Europe/London is ahead of UTC at a local wall-clock time of the
\* date, for a wall-clock time the zone has exactly once.
LondonOffset(date, secs_of_day) ==
    CASE date \in {"20240221", "20240222"} -> 0
      [] date = "20240701" -> 3600
      [] date = "20240331" /\ secs_of_day < 3600 -> 0
      [] date = "20240331" /\ secs_of_day >= 7200 -> 3600
      [] date = "20241027" /\ secs_of_day < 3600 -> 3600
      [] date = "20241027" /\ secs_of_day >= 7200 -> 0

\* convert_SINGLE_datetime_to_unix: local midnight of the date, in epoch seconds.
convert_SINGLE_datetime_to_unix(date) ==
    DayStartUTC(date) - LondonOffset(date, 0)

\* Seconds after midnight of an arrival_time <<HH, MM, SS>>.
SecondsOfDay(t) == t[1] * 3600 + t[2] * 60 + t[3]

\* convert_string_time_to_unix on one row: "<timetable_date> <time>" read as
\* Europe/London wall-clock time, in epoch seconds.
convert_string_time_to_unix(date, t) ==
    DayStartUTC(date) + SecondsOfDay(t) - LondonOffset(date, SecondsOfDay(t))

\* dt.replace_time_zone("Europe/London") with its default arguments raises
\* on a wall-clock time the zone has twice or not at all.
replace_time_zone_raises(date, t) == WallClock(date, SecondsOfDay(t)) # "ok"

\* Seconds Europe/London is ahead of UTC at the instant unix (summer time
\* of 2024 runs from 31 March 01:00 UTC to 27 October 01:00 UTC).
LondonOffsetAt(unix) ==
    IF unix >= 1711846800 /\ unix < 1729990800 THEN 3600 ELSE 0

\* The time of day <<HH, MM, SS>> of a number of seconds.
TimeOfDay(secs) ==
    <<(secs % 86400) \div 3600, ((secs % 86400) % 3600) \div 60, secs % 60>>

\* The conversion without the change of zone: the time of day in UTC.
convert_unix_to_time_string_UTC(unix) == TimeOfDay(unix)

\* convert_unix_to_time_string on one row: the epoch seconds read as UTC,
\* converted to Europe/London and cast to a time of day.
convert_unix_to_time_string(unix) == TimeOfDay(unix + LondonOffsetAt(unix))

----------------------------------------------------------------------------
(* Timetable Loader *)

\* Bound: the number of calendar_dates rows of an archive.
MaxExceptions == 2

\* Bound: the number of timetable calls made on one timetable_dir.
MaxCalls == 2

Regions == {"north_east", "north_west"}

\* The archives that may lie in timetable_dir, named <region>_<date>.zip.
ArchiveKeys ==
    {[region |-> "north_east", date |-> "20240221"],
     [region |-> "north_west", date |-> "20240222"],
     [region |-> "north_east", date |-> "20240222"]}

\* The nine files of a GTFS archive (unzip_GTFS.txt_files).
TxtFiles ==
    {"agency.txt", "calendar.txt", "calendar_dates.txt", "feed_info.txt",
     "routes.txt", "shapes.txt", "stop_times.txt", "stops.txt", "trips.txt"}

\* A file that is not in the directory.
MISSING == [region |-> "<missing>", date |-> "<missing>"]

\* Schedule_Builder.route_types (default [3], bus).
route_types == {3}

\* The route_type of a service stop whose route_id has no row in the
\* filtered routes table (the null of the left join).
NullRouteType == 0 - 1

\* calendar_dates rows an archive may hold for service S1.
ExceptionRows ==
    {[service_id |-> "S1", date |-> d, exception_type |-> e] :
        d \in Dates, e \in {1, 2}}

\* What varies between the archives of the model: the weekday flags of
\* service S1 in calendar.txt and the rows of calendar_dates.txt.
GtfsVariants ==
    {[wednesday |-> w, thursday |-> t, calendar_dates |-> x] :
        w \in {0, 1}, t \in {0, 1},
        x \in {e \in SUBSET ExceptionRows : Cardinality(e) <= MaxExceptions}}

\* Trip ids are particular to an archive.
TripId(key, n) ==
    (CASE key = [region |-> "north_east", date |-> "20240221"] -> "T"
       [] key = [region |-> "north_west", date |-> "20240222"] -> "U"
       [] key = [region |-> "north_east", date |-> "20240222"] -> "V") \o n

\* The tables of the archive <region>_<date>.zip.  Trip 1 runs on bus route
\* R1 under service S1, trip 2 on a rail route, trip 3 on a route missing
\* from routes.txt, trip 4 on service S2, which runs every day.  Trip 1
\* has arrivals at the edges of the 07:00-10:00 window's buffers, one at
\* an unregistered stop and one after 24:00; the north_east 20240221
\* archive repeats a stop_sequence of trip 1.
ArchiveTables(key, v) ==
    [calendar |->
        {[service_id |-> "S1", wednesday |-> v.wednesday, thursday |-> v.thursday],
         [service_id |-> "S2", wednesday |-> 1, thursday |-> 1]},
     calendar_dates |-> v.calendar_dates,
     routes |->
        {[route_id |-> "R1", route_type |-> 3],
         [route_id |-> "R2", route_type |-> 2]},
     trips |->
        {[trip_id |-> TripId(key, "1"), route_id |-> "R1", service_id |-> "S1"],
         [trip_id |-> TripId(key, "2"), route_id |-> "R2", service_id |-> "S1"],
         [trip_id |-> TripId(key, "3"), route_id |-> "R9", service_id |-> "S1"],
         [trip_id |-> TripId(key, "4"), route_id |-> "R1", service_id |-> "S2"]},
     stop_times |->
        {[trip_id |-> TripId(key, "1"), stop_id |-> "A", stop_sequence |-> 1,
          arrival_time |-> <<6, 29, 59>>],
         [trip_id |-> TripId(key, "1"), stop_id |-> "A", stop_sequence |-> 2,
          arrival_time |-> <<6, 30, 0>>],
         [trip_id |-> TripId(key, "1"), stop_id |-> "B", stop_sequence |-> 3,
          arrival_time |-> <<8, 0, 0>>],
         [trip_id |-> TripId(key, "1"), stop_id |-> "B", stop_sequence |-> 4,
          arrival_time |-> <<10, 29, 59>>],
         [trip_id |-> TripId(key, "1"), stop_id |-> "C", stop_sequence |-> 5,
          arrival_time |-> <<10, 30, 0>>],
         [trip_id |-> TripId(key, "1"), stop_id |-> "B", stop_sequence |-> 6,
          arrival_time |-> <<25, 10, 0>>],
         [trip_id |-> TripId(key, "2"), stop_id |-> "A", stop_sequence |-> 1,
          arrival_time |-> <<8, 0, 0>>],
         [trip_id |-> TripId(key, "3"), stop_id |-> "A", stop_sequence |-> 1,
          arrival_time |-> <<8, 0, 0>>],
         [trip_id |-> TripId(key, "4"), stop_id |-> "A", stop_sequence |-> 1,
          arrival_time |-> <<8, 5, 0>>]}
        \cup
        (IF key = [region |-> "north_east", date |-> "20240221"]
         THEN {[trip_id |-> TripId(key, "1"), stop_id |-> "A", stop_sequence |-> 3,
                arrival_time |-> <<8, 1, 0>>]}
         ELSE {})]

\* build_stops(): the stop registry handed to the Timetable Loader.
StopRegistry ==
    {[stop_id |-> "A", stop_lat |-> "54.97", stop_lon |-> "-1.61"],
     [stop_id |-> "B", stop_lat |-> "54.98", stop_lon |-> "-1.62"]}

\* glob.glob(os.path.join(zip_path, f"*{region}_{date}.zip")): the archives
\* of the directory whose names end with the pattern.
MatchingZip(dir, region, date) ==
    {k \in dir : k.region = region /\ k.date = date}

\* The first matching archive extracted however many match.
unzip_GTFS_FirstMatch(dir, txt, region, date) ==
    LET missing_files == {f \in TxtFiles : txt[f] = MISSING}
        matching_zip == MatchingZip(dir, region, date)
    IN  IF missing_files # {}
        THEN IF matching_zip = {}
             THEN [error |-> TRUE, txt |-> txt]
             ELSE [error |-> FALSE,
                   txt |-> [f \in TxtFiles |-> CHOOSE k \in matching_zip : TRUE]]
        ELSE [error |-> FALSE, txt |-> txt]

\* unzip_GTFS(txt_path, zip_path, f"{region}_{date}.zip"): whether it
\* raised ValueError, and the directory after the call.  Nothing is
\* extracted when all nine files are present; otherwise the one matching
\* archive is extracted over the directory.
unzip_GTFS(dir, txt, region, date) ==
    LET missing_files == {f \in TxtFiles : txt[f] = MISSING}
        matching_zip == MatchingZip(dir, region, date)
    IN  IF missing_files # {}
        THEN IF matching_zip = {}
             THEN [error |-> TRUE, txt |-> txt]
             ELSE IF Cardinality(matching_zip) > 1
                  THEN [error |-> TRUE, txt |-> txt]
                  ELSE [error |-> FALSE,
                        txt |-> [f \in TxtFiles |-> CHOOSE k \in matching_zip : TRUE]]
        ELSE [error |-> FALSE, txt |-> txt]

\* pl.read_csv of the five tables load_raw_timetable_data reads, each from
\* the file now in the directory.
ReadTables(txt, v) ==
    [calendar_dates |-> ArchiveTables(txt["calendar_dates.txt"], v).calendar_dates,
     calendar |-> ArchiveTables(txt["calendar.txt"], v).calendar,
     routes |-> ArchiveTables(txt["routes.txt"], v).routes,
     stop_times |-> ArchiveTables(txt["stop_times.txt"], v).stop_times,
     trips |-> ArchiveTables(txt["trips.txt"], v).trips]

\* The rows of calendar_dates.txt dated the target date.
calendar_dates_on(calendar_dates, date) ==
    {r \in calendar_dates : r.date = date}

\* service_ids of the dated rows with exception_type 2.
exception_drops(calendar_dates, date) ==
    {r.service_id : r \in {x \in calendar_dates_on(calendar_dates, date) :
                              x.exception_type = 2}}

\* service_ids of the dated rows with exception_type 1.
exception_adds(calendar_dates, date) ==
    {r.service_id : r \in {x \in calendar_dates_on(calendar_dates, date) :
                              x.exception_type = 1}}

\* calendar.filter(col(weekday) == 1)["service_id"] extended by the adds.
active_services(calendar, calendar_dates, date) ==
    {r.service_id : r \in {x \in calendar : x[Weekday(date)] = 1}}
        \cup exception_adds(calendar_dates, date)

\* Mutant of active_trips: the anti-join with the drops left out.
active_trips_NoDrops(tables, date) ==
    {x \in tables.trips :
        x.service_id \in active_services(tables.calendar, tables.calendar_dates, date)}

\* trips.filter(service_id.is_in(active_services)) anti-joined with the drops.
active_trips(tables, date) ==
    {t \in {x \in tables.trips :
              x.service_id \in active_services(tables.calendar, tables.calendar_dates, date)} :
        t.service_id \notin exception_drops(tables.calendar_dates, date)}

\* stop_lat and stop_lon of a stop_id after the left join with the registry.
StopCoordinates(stops, stop_id) ==
    IF \E s \in stops : s.stop_id = stop_id
    THEN {<<s.stop_lat, s.stop_lon>> : s \in {x \in stops : x.stop_id = stop_id}}
    ELSE {<<NULL, NULL>>}

\* route_type of a route_id after the left join with the filtered routes.
RouteTypes(routes, route_id) ==
    IF \E r \in routes : r.route_id = route_id
    THEN {r.route_type : r \in {x \in routes : x.route_id = route_id}}
    ELSE {NullRouteType}

\* convert_string_time_to_unix(service_stops, "arrival_time") on one row.
WithUnixArrivalTime(r) ==
    [trip_id |-> r.trip_id, route_id |-> r.route_id, service_id |-> r.service_id,
     stop_id |-> r.stop_id, stop_sequence |-> r.stop_sequence,
     arrival_time |-> r.arrival_time, stop_lat |-> r.stop_lat,
     stop_lon |-> r.stop_lon, route_type |-> r.route_type,
     timetable_date |-> r.timetable_date,
     unix_arrival_time |-> convert_string_time_to_unix(r.timetable_date, r.arrival_time)]

\* The filter that lets every arrival time through.
OnDayClock_Any(t) == TRUE

\* filter(arrival_time.str.slice(0, 2).cast(UInt32) < 24) on one arrival time.
OnDayClock(t) == t[1] < 24

\* Schedule_Builder.load_raw_timetable_data once the tables are read: the
\* service stops of the date (joins, drop_nulls, timetable_date, the 24 hour
\* filter, unix_arrival_time).
load_raw_timetable_data(tables, stops, date) ==
    LET routes == {r \in tables.routes : r.route_type \in route_types}
        joined ==
            UNION {UNION {{[trip_id |-> t.trip_id, route_id |-> t.route_id,
                            service_id |-> t.service_id, stop_id |-> st.stop_id,
                            stop_sequence |-> st.stop_sequence,
                            arrival_time |-> st.arrival_time,
                            stop_lat |-> c[1], stop_lon |-> c[2],
                            route_type |-> rty, timetable_date |-> date] :
                              c \in StopCoordinates(stops, st.stop_id),
                              rty \in RouteTypes(routes, t.route_id)} :
                          st \in {x \in tables.stop_times : x.trip_id = t.trip_id}} :
                   t \in active_trips(tables, date)}
        kept == {r \in joined :
                    /\ r.route_id # NULL
                    /\ r.route_type # NullRouteType
                    /\ OnDayClock(r.arrival_time)}
    IN  {WithUnixArrivalTime(r) : r \in kept}

\* The time windows Schedule_Builder may be configured with, <<time_from,
\* time_to>> in half-seconds after midnight: 7.0 to 10.0 hours (the
\* defaults) and the same half a second later.
TimeWindows == {<<50400, 72000>>, <<50401, 72001>>}

\* int(datestamp + (self.time_from * 60 * 60) - 1800)
tt_time_from(date, from) ==
    convert_SINGLE_datetime_to_unix(date) + ((from - 3600) \div 2)

\* int(datestamp + (self.time_to * 60 * 60) + 1800)
tt_time_to(date, to) ==
    convert_SINGLE_datetime_to_unix(date) + ((to + 3600) \div 2)

\* Mutant of InWindow: the upper bound included.
InWindow_Closed(unix, lo, hi) == unix >= lo /\ unix <= hi

\* The filter of build_timetable when partial_timetable is set.
InWindow(unix, lo, hi) == unix >= lo /\ unix < hi

\* with_columns(concat_str([timetable_date, stop_sequence, trip_id, route_id]).alias("UID"))
WithTimetableUID(r) ==
    [trip_id |-> r.trip_id, route_id |-> r.route_id, service_id |-> r.service_id,
     stop_id |-> r.stop_id, stop_sequence |-> r.stop_sequence,
     arrival_time |-> r.arrival_time, stop_lat |-> r.stop_lat,
     stop_lon |-> r.stop_lon, route_type |-> r.route_type,
     timetable_date |-> r.timetable_date,
     unix_arrival_time |-> r.unix_arrival_time,
     UID |-> concat_str(r.timetable_date, ToString(r.stop_sequence),
                        r.trip_id, r.route_id)]

\* The tables made of one row of rows for each UID of uids.
RECURSIVE OneRowOfEach(_, _)
OneRowOfEach(uids, rows) ==
    IF uids = {} THEN {{}}
    ELSE LET u == CHOOSE x \in uids : TRUE
         IN  {T \cup {r} : T \in OneRowOfEach(uids \ {u}, rows),
                           r \in {x \in rows : x.UID = u}}

\* The table when unique keeps every row.
UniqueAny_KeepAll(rows) == {rows}

\* The tables df.unique("UID") may return: one row, any one, of each UID.
UniqueAny(rows) == OneRowOfEach({r.UID : r \in rows}, rows)

\* Schedule_Builder.build_timetable after the load: the window filter, the
\* UID column, and the tables unique may return.
build_timetable(loaded, date, partial, from, to) ==
    LET df == IF partial
              THEN {r \in loaded :
                      InWindow(r.unix_arrival_time, tt_time_from(date, from),
                               tt_time_to(date, to))}
              ELSE loaded
    IN  UniqueAny({WithTimetableUID(r) : r \in df})

\* The realtime variables where no realtime operation runs.
RtIdle ==
    /\ realtime_dir = <<>>
    /\ labelled_real = NONE
    /\ unlabelled_real = NONE
    /\ rt_df = NONE
    /\ rt_unlabelled = NONE
    /\ rt_pc = {}

\* A fresh timetable_dir and a Schedule_Builder as constructed.
TtInit ==
    /\ zip_dir \in {ArchiveKeys, ArchiveKeys \ {[region |-> "north_east", date |-> "20240222"]}}
    /\ gtfs_variant \in GtfsVariants
    /\ txt_dir = [f \in TxtFiles |-> MISSING]
    /\ self_date \in Dates
    /\ partial_timetable \in BOOLEAN
    /\ \E w \in TimeWindows : time_from = w[1] /\ time_to = w[2]
    /\ tt_call = NONE
    /\ tt_tables = NONE
    /\ tt_loaded = NONE
    /\ tt_out = NONE
    /\ tt_prev = NONE
    /\ n_calls = 0

\* What a timetable call leaves when unzip_GTFS raises.
TimetableCallFails(op, region, date) ==
    /\ tt_call' = [op |-> op, region |-> region, date |-> date]
    /\ tt_tables' = NONE
    /\ tt_loaded' = NONE
    /\ tt_out' = [status |-> "ValueError", table |-> {}]
    /\ n_calls' = n_calls + 1
    /\ UNCHANGED <<zip_dir, gtfs_variant, txt_dir, self_date, partial_timetable,
                   time_from, time_to>>

\* load_raw_timetable_data(stops, region, date).
LoadRawTimetableDataCall(region, date) ==
    /\ n_calls < MaxCalls
    /\ LET unzipped == unzip_GTFS(zip_dir, txt_dir, region, date)
           tables == ReadTables(unzipped.txt, gtfs_variant)
       IN  IF unzipped.error
           THEN TimetableCallFails("load_raw_timetable_data", region, date)
           ELSE /\ txt_dir' = unzipped.txt
                /\ tt_call' = [op |-> "load_raw_timetable_data",
                               region |-> region, date |-> date]
                /\ tt_tables' = tables
                /\ tt_loaded' = load_raw_timetable_data(tables, StopRegistry, date)
                /\ tt_out' = [status |-> "ok",
                              table |-> load_raw_timetable_data(tables, StopRegistry, date)]
                /\ n_calls' = n_calls + 1
                /\ UNCHANGED <<zip_dir, gtfs_variant, self_date, partial_timetable,
                               time_from, time_to>>

\* A call of load_raw_timetable_data(stops, region, date) on its own.
LoadRawTimetableData(region, date) ==
    /\ LoadRawTimetableDataCall(region, date)
    /\ UNCHANGED <<tt_prev, rt_vars, sched_vars, agg_vars, fn_vars, ing_vars>>

\* build_timetable(stops, region, date): the load is called with the region
\* only, so it takes the date from self.date.
BuildTimetableCall(region, date) ==
    /\ n_calls < MaxCalls
    /\ LET unzipped == unzip_GTFS(zip_dir, txt_dir, region, self_date)
           tables == ReadTables(unzipped.txt, gtfs_variant)
           loaded == load_raw_timetable_data(tables, StopRegistry, self_date)
       IN  IF unzipped.error
           THEN TimetableCallFails("build_timetable", region, date)
           ELSE /\ txt_dir' = unzipped.txt
                /\ tt_call' = [op |-> "build_timetable",
                               region |-> region, date |-> date]
                /\ tt_tables' = tables
                /\ tt_loaded' = loaded
                /\ \E df \in build_timetable(loaded, date, partial_timetable,
                                             time_from, time_to) :
                     tt_out' = [status |-> "ok", table |-> df]
                /\ n_calls' = n_calls + 1
                /\ UNCHANGED <<zip_dir, gtfs_variant, self_date, partial_timetable,
                               time_from, time_to>>

\* A call of build_timetable(stops, region, date) on its own.
BuildTimetable(region, date) ==
    /\ BuildTimetableCall(region, date)
    /\ UNCHANGED <<tt_prev, rt_vars, sched_vars, agg_vars, fn_vars, ing_vars>>

TtNext ==
    \E region \in Regions, date \in Dates :
        \/ LoadRawTimetableData(region, date)
        \/ BuildTimetable(region, date)

InitTimetable == TtInit /\ RtIdle /\ SchedIdle /\ AggIdle /\ FnIdle /\ IngIdle

SpecTimetable == InitTimetable /\ [][TtNext]_vars

\* A call of build_timetable(stops, region, date) by a caller that keeps
\* the result of its previous call.
BuildTimetableAgain(region, date) ==
    /\ BuildTimetableCall(region, date)
    /\ tt_prev' = [call |-> tt_call, out |-> tt_out]
    /\ UNCHANGED <<rt_vars, sched_vars, agg_vars, fn_vars, ing_vars>>

RebuildNext ==
    \E region \in Regions, date \in Dates : BuildTimetableAgain(region, date)

SpecRebuild == InitTimetable /\ [][RebuildNext]_vars


----------------------------------------------------------------------------
(* Schedule Reconciler *)

\* The pings of the day of the schedule builder run: pings of trip T1 on
\* route R1 at stop 3 (scheduled 08:00:00, epoch 1708502400) transmitted
\* 300 and 299 seconds after and 59, 60 and 240 seconds before the
\* scheduled arrival; at stop 4 (scheduled 10:29:59, epoch 1708511399)
\* transmitted 299 and 120 seconds after and 60 seconds before; at a stop
\* the timetable does not have; and a ping without route_id.
SchedulePingRows ==
    {[time_ingest |-> 1708515470, time_transpond |-> tt, bus_id |-> "B1",
      trip_id |-> "T1", route_id |-> "R1", current_stop |-> 3,
      journey_date |-> 20240221] :
        tt \in {1708502700, 1708502699, 1708502341, 1708502340, 1708502160}}
    \cup
    {[time_ingest |-> 1708515470, time_transpond |-> tt, bus_id |-> "B1",
      trip_id |-> "T1", route_id |-> "R1", current_stop |-> 4,
      journey_date |-> 20240221] :
        tt \in {1708511698, 1708511519, 1708511339}}
    \cup
    {[time_ingest |-> 1708515470, time_transpond |-> 1708502400, bus_id |-> "B1",
      trip_id |-> "T1", route_id |-> "R1", current_stop |-> 9,
      journey_date |-> 20240221],
     [time_ingest |-> 1708515470, time_transpond |-> 1708502400, bus_id |-> "B1",
      trip_id |-> "T1", route_id |-> NULL, current_stop |-> 3,
      journey_date |-> 20240221]}

\* realtime_df[["UID", "time_transpond", "bus_id"]].join(timetable_df,
\* on="UID", how="inner").unique(): a null UID matches nothing.
InnerJoinOnUID(realtime_df, timetable_df) ==
    {[UID |-> r.UID, time_transpond |-> r.time_transpond, bus_id |-> r.bus_id,
      trip_id |-> t.trip_id, route_id |-> t.route_id, service_id |-> t.service_id,
      stop_id |-> t.stop_id, stop_sequence |-> t.stop_sequence,
      arrival_time |-> t.arrival_time, stop_lat |-> t.stop_lat,
      stop_lon |-> t.stop_lon, route_type |-> t.route_type,
      timetable_date |-> t.timetable_date,
      unix_arrival_time |-> t.unix_arrival_time] :
        <<r, t>> \in {q \in realtime_df \X timetable_df :
                        q[1].UID # NULL /\ q[1].UID = q[2].UID}}

\* Mutant of relative_punctuality: the difference taken the other way round.
relative_punctuality_Swapped(unix_arrival_time, time_transpond) ==
    time_transpond - unix_arrival_time

\* col("unix_arrival_time") - col("time_transpond")
relative_punctuality(unix_arrival_time, time_transpond) ==
    unix_arrival_time - time_transpond

\* Mutant of punctual: the bounds included.
punctual_Inclusive(rel) == IF rel >= -300 /\ rel <= 60 THEN 1 ELSE 0

\* when((relative_punctuality > -300) & (relative_punctuality < 60)).then(1).otherwise(0)
punctual(rel) == IF rel > -300 /\ rel < 60 THEN 1 ELSE 0

\* The two with_columns of punctuality_by_stop on one joined row.
WithPunctuality(j) ==
    [UID |-> j.UID, time_transpond |-> j.time_transpond, bus_id |-> j.bus_id,
     trip_id |-> j.trip_id, route_id |-> j.route_id, service_id |-> j.service_id,
     stop_id |-> j.stop_id, stop_sequence |-> j.stop_sequence,
     arrival_time |-> j.arrival_time, stop_lat |-> j.stop_lat,
     stop_lon |-> j.stop_lon, route_type |-> j.route_type,
     timetable_date |-> j.timetable_date,
     unix_arrival_time |-> j.unix_arrival_time,
     relative_punctuality |->
        relative_punctuality(j.unix_arrival_time, j.time_transpond),
     punctual |->
        punctual(relative_punctuality(j.unix_arrival_time, j.time_transpond))]

\* The sum of the punctual column over the rows S.
RECURSIVE SumPunctual(_)
SumPunctual(S) ==
    IF S = {} THEN 0
    ELSE LET x == CHOOSE y \in S : TRUE
         IN  x.punctual + SumPunctual(S \ {x})

\* The grouping with service_stops counting the punctual events only.
GroupByStop_CountPunctual(df) ==
    {[stop_id |-> k[1], stop_lat |-> k[2], stop_lon |-> k[3],
      service_stops |->
         SumPunctual({r \in df : <<r.stop_id, r.stop_lat, r.stop_lon>> = k}),
      punctuality_rate |->
         <<SumPunctual({r \in df : <<r.stop_id, r.stop_lat, r.stop_lon>> = k}),
           Cardinality({r \in df : <<r.stop_id, r.stop_lat, r.stop_lon>> = k})>>] :
        k \in {<<r.stop_id, r.stop_lat, r.stop_lon>> : r \in df}}

\* group_by(["stop_id", "stop_lat", "stop_lon"]).agg(count("punctual"),
\* mean("punctual")): punctuality_rate is kept as the fraction
\* <<sum of punctual, count>>.
GroupByStop(df) ==
    {[stop_id |-> k[1], stop_lat |-> k[2], stop_lon |-> k[3],
      service_stops |->
         Cardinality({r \in df : <<r.stop_id, r.stop_lat, r.stop_lon>> = k}),
      punctuality_rate |->
         <<SumPunctual({r \in df : <<r.stop_id, r.stop_lat, r.stop_lon>> = k}),
           Cardinality({r \in df : <<r.stop_id, r.stop_lat, r.stop_lon>> = k})>>] :
        k \in {<<r.stop_id, r.stop_lat, r.stop_lon>> : r \in df}}

\* The script starts with the archive of its region and date in
\* timetable_dir, no extracted files, and the day's ping files stored.
InitSchedule ==
    /\ zip_dir = {[region |-> "north_east", date |-> "20240221"]}
    /\ gtfs_variant \in {v \in GtfsVariants : v.calendar_dates = {} /\ v.thursday = 0}
    /\ txt_dir = [f \in TxtFiles |-> MISSING]
    /\ self_date = "20240221"
    /\ partial_timetable = FALSE
    /\ time_from = 50400
    /\ time_to = 72000
    /\ tt_call = NONE
    /\ tt_tables = NONE
    /\ tt_loaded = NONE
    /\ tt_out = NONE
    /\ tt_prev = NONE
    /\ n_calls = 0
    /\ realtime_dir \in SeqsUpTo(SchedulePingRows, MaxPings)
    /\ labelled_real = NONE
    /\ unlabelled_real = NONE
    /\ rt_df = NONE
    /\ rt_unlabelled = NONE
    /\ rt_pc = {}
    /\ schedule = NONE
    /\ stop_punctuality = NONE
    /\ sched_pc = "start"
    /\ AggIdle
    /\ FnIdle
    /\ IngIdle

\* tt = builder.build_timetable(stops=stops, region=builder.region, date=date)
MainBuildTimetable ==
    /\ sched_pc = "start"
    /\ BuildTimetableCall("north_east", "20240221")
    /\ sched_pc' = "timetable"
    /\ UNCHANGED <<tt_prev, rt_vars, schedule, stop_punctuality, agg_vars, fn_vars, ing_vars>>

\* rt, unlabelled = builder.build_realtime(region=builder.region, date=date);
\* pl.concat raises when no ping file matches.
MainBuildRealtime ==
    /\ sched_pc = "timetable"
    /\ tt_out.status = "ok"
    /\ realtime_dir # <<>>
    /\ BuildRealtimeCall
    /\ sched_pc' = "realtime"
    /\ UNCHANGED <<tt_vars, schedule, stop_punctuality, agg_vars, fn_vars, ing_vars>>

\* final_df_script = builder.punctuality_by_stop(realtime_df=rt, timetable_df=tt)
PunctualityByStop ==
    /\ sched_pc = "realtime"
    /\ schedule' = {WithPunctuality(j) : j \in InnerJoinOnUID(rt_df, tt_out.table)}
    /\ stop_punctuality' =
         GroupByStop({WithPunctuality(j) : j \in InnerJoinOnUID(rt_df, tt_out.table)})
    /\ sched_pc' = "done"
    /\ UNCHANGED <<rt_vars, tt_vars, agg_vars, fn_vars, ing_vars>>

SchedNext == MainBuildTimetable \/ MainBuildRealtime \/ PunctualityByStop

SpecSchedule == InitSchedule /\ [][SchedNext]_vars

----------------------------------------------------------------------------
(* Geography Aggregator (punctuality_rate.py) *)

\* Bound: the number of rows of the stop-level punctuality file.
MaxStopRows == 3

\* Bound: the number of rows of the geography lookup file.
MaxLookupRows == 3

\* A float cell that holds a quotient is kept as the fraction
\* <<numerator, denominator>>; the quotient 0/0 is NaN.
IsNaN(x) == x[1] = 0 /\ x[2] = 0

\* Rows a stop-level punctuality file can hold: the three stops of the
\* re-aggregation test, a stop whose product service_stops * rate is not
\* whole, and a stop without service (rate 0.0, or an empty rate cell).
StopPunctualityRows ==
    {[stop_id |-> "1", stop_lat |-> "54.97", stop_lon |-> "-1.61",
      service_stops |-> 10, punctuality_rate |-> <<8, 10>>],
     [stop_id |-> "2", stop_lat |-> "54.98", stop_lon |-> "-1.62",
      service_stops |-> 20, punctuality_rate |-> <<9, 10>>],
     [stop_id |-> "3", stop_lat |-> "54.99", stop_lon |-> "-1.63",
      service_stops |-> 30, punctuality_rate |-> <<7, 10>>],
     [stop_id |-> "3", stop_lat |-> "54.99", stop_lon |-> "-1.63",
      service_stops |-> 3, punctuality_rate |-> <<1, 2>>],
     [stop_id |-> "4", stop_lat |-> "55.00", stop_lon |-> "-1.64",
      service_stops |-> 0, punctuality_rate |-> <<0, 1>>],
     [stop_id |-> "4", stop_lat |-> "55.00", stop_lon |-> "-1.64",
      service_stops |-> 0, punctuality_rate |-> <<0, 0>>]}

\* The stop-level files: one row per (stop_id, stop_lat, stop_lon).
StopPunctualityFiles ==
    {S \in SUBSET StopPunctualityRows :
        /\ Cardinality(S) <= MaxStopRows
        /\ \A r, q \in S : r.stop_id = q.stop_id => r = q}

\* Rows a lookup file can hold, with the code and name columns of the
\* configured geography: a stop outside every boundary has null labels, a
\* stop inside two boundaries has two rows, and the lookup may carry
\* another coordinate for a stop than the punctuality file.
LookupRows ==
    {[stop_id |-> "1", stop_lat |-> "54.97", stop_lon |-> "-1.61",
      code |-> "1", name |-> "A"],
     [stop_id |-> "1", stop_lat |-> "54.97", stop_lon |-> "-1.61",
      code |-> "2", name |-> "B"],
     [stop_id |-> "2", stop_lat |-> "54.98", stop_lon |-> "-1.62",
      code |-> "2", name |-> "B"],
     [stop_id |-> "2", stop_lat |-> "54.98", stop_lon |-> "-1.62",
      code |-> NULL, name |-> NULL],
     [stop_id |-> "3", stop_lat |-> "54.99", stop_lon |-> "-1.63",
      code |-> "1", name |-> "A"],
     [stop_id |-> "3", stop_lat |-> "54.991", stop_lon |-> "-1.63",
      code |-> "1", name |-> "A"],
     [stop_id |-> "4", stop_lat |-> "55.00", stop_lon |-> "-1.64",
      code |-> "3", name |-> "C"]}

LookupFiles == {L \in SUBSET LookupRows : Cardinality(L) <= MaxLookupRows}

\* One row of the merged frame: the stop row with its geography labels.
Labelled(s, code, name) ==
    [stop_id |-> s.stop_id, stop_lat |-> s.stop_lat, stop_lon |-> s.stop_lon,
     service_stops |-> s.service_stops, punctuality_rate |-> s.punctuality_rate,
     code |-> code, name |-> name]

\* The lookup rows a stop row joins with when stop_id is the only key.
LookupMatches_StopIdOnly(s, lookup) ==
    {l \in lookup : l.stop_id = s.stop_id}

\* on=["stop_id", "stop_lat", "stop_lon"]: the lookup rows a stop row joins with.
LookupMatches(s, lookup) ==
    {l \in lookup : /\ l.stop_id = s.stop_id
                    /\ l.stop_lat = s.stop_lat
                    /\ l.stop_lon = s.stop_lon}

\* pd.merge(stops, lookup, on=[...], how="left"): every stop row, once per
\* matching lookup row, or once with null labels when none matches.
merge_geographies_with_stop_punctuality(stops, lookup) ==
    UNION {IF LookupMatches(s, lookup) = {}
           THEN {Labelled(s, NULL, NULL)}
           ELSE {Labelled(s, l.code, l.name) : l \in LookupMatches(s, lookup)} :
           s \in stops}

\* The product rounded to the nearest integer instead of truncated.
punctual_service_stops_Rounded(r) ==
    (2 * r.service_stops * r.punctuality_rate[1] + r.punctuality_rate[2])
        \div (2 * r.punctuality_rate[2])

\* (service_stops * punctuality_rate).astype(int) on one row with a
\* finite rate: the product truncated to an integer.
punctual_service_stops(r) ==
    (r.service_stops * r.punctuality_rate[1]) \div r.punctuality_rate[2]

\* labelled["punctual_service_stops"] = ...: the frame with its new column.
WithPunctualServiceStops(df) ==
    {[stop_id |-> r.stop_id, stop_lat |-> r.stop_lat, stop_lon |-> r.stop_lon,
      service_stops |-> r.service_stops, punctuality_rate |-> r.punctuality_rate,
      code |-> r.code, name |-> r.name,
      punctual_service_stops |-> punctual_service_stops(r)] : r \in df}

\* The sum of the column col over the rows S.
RECURSIVE SumColumn(_, _)
SumColumn(S, col) ==
    IF S = {} THEN 0
    ELSE LET x == CHOOSE y \in S : TRUE
         IN  x[col] + SumColumn(S \ {x}, col)

\* The group keys when rows with a null key form a group of their own.
GroupKeys_KeepNull(df) == {<<r.code, r.name>> : r \in df}

\* The group keys when a group without service is left out.
GroupKeys_ServedOnly(df) ==
    {<<r.code, r.name>> :
        r \in {q \in df : q.code # NULL /\ q.name # NULL /\ q.service_stops > 0}}

\* groupby([code, name]): the group keys; rows with a null key form no group.
GroupKeys(df) ==
    {<<r.code, r.name>> : r \in {q \in df : q.code # NULL /\ q.name # NULL}}

\* groupby([code, name]).agg(sum, sum), the rate column, reset_index.
GroupByGeography(df) ==
    {[code |-> k[1], name |-> k[2],
      service_stops |->
         SumColumn({r \in df : <<r.code, r.name>> = k}, "service_stops"),
      punctual_service_stops |->
         SumColumn({r \in df : <<r.code, r.name>> = k}, "punctual_service_stops"),
      punctuality_rate |->
         <<SumColumn({r \in df : <<r.code, r.name>> = k}, "punctual_service_stops"),
           SumColumn({r \in df : <<r.code, r.name>> = k}, "service_stops")>>] :
        k \in GroupKeys(df)}

\* _reaggregate_punctuality(labelled): the caller's frame after the call
\* and what the call returned.  astype(int) raises on a NaN product before
\* the column is assigned.
_reaggregate_punctuality(df) ==
    IF \E r \in df : IsNaN(r.punctuality_rate)
    THEN [labelled |-> df,
          result |-> [status |-> "IntCastingNaNError", table |-> {}]]
    ELSE [labelled |-> WithPunctualServiceStops(df),
          result |-> [status |-> "ok",
                      table |-> GroupByGeography(WithPunctualServiceStops(df))]]

\* The two files merge_geographies_with_stop_punctuality reads.
InputFiles == {"stop_level_punctuality", "geography_lookup_table"}

\* A file read as found whether it exists or not.
FileFound_Always(stored, file) == TRUE

\* pd.read_csv(file, index_col=0) finds the file (else FileNotFoundError).
FileFound(stored, file) == file \in stored

\* An AggregationTool as constructed; a file that does not exist has no rows.
AggInit ==
    /\ stored_files \in SUBSET InputFiles
    /\ stop_level_punctuality \in
          IF "stop_level_punctuality" \in stored_files
          THEN StopPunctualityFiles ELSE {{}}
    /\ geography_lookup_table \in
          IF "geography_lookup_table" \in stored_files
          THEN LookupFiles ELSE {{}}
    /\ labelled = NONE
    /\ geog_df = NONE
    /\ outdir = NONE
    /\ agg_pc = "start"
    /\ agg_raised = NONE

\* A call of merge_geographies_with_stop_punctuality(): the except clause
\* prints and re-raises FileNotFoundError.
MergeGeographiesWithStopPunctuality ==
    /\ agg_pc = "start"
    /\ IF /\ FileFound(stored_files, "stop_level_punctuality")
          /\ FileFound(stored_files, "geography_lookup_table")
       THEN /\ labelled' = merge_geographies_with_stop_punctuality(
                              stop_level_punctuality, geography_lookup_table)
            /\ agg_pc' = "merged"
            /\ UNCHANGED agg_raised
       ELSE /\ agg_raised' = "FileNotFoundError"
            /\ agg_pc' = "raised"
            /\ UNCHANGED labelled
    /\ UNCHANGED <<stop_level_punctuality, geography_lookup_table, geog_df,
                   outdir, stored_files>>
    /\ UNCHANGED <<rt_vars, tt_vars, sched_vars, fn_vars, ing_vars>>

\* A call of _reaggregate_punctuality(labelled) on the merged frame.
ReaggregatePunctuality ==
    /\ agg_pc = "merged"
    /\ labelled' = _reaggregate_punctuality(labelled).labelled
    /\ geog_df' = _reaggregate_punctuality(labelled).result
    /\ agg_pc' = "reaggregated"
    /\ UNCHANGED <<stop_level_punctuality, geography_lookup_table, outdir,
                   stored_files, agg_raised>>
    /\ UNCHANGED <<rt_vars, tt_vars, sched_vars, fn_vars, ing_vars>>

\* A call of punctuality_by_geography(): merge, re-aggregate, to_csv; an
\* exception of the merge ends the call.
PunctualityByGeography ==
    /\ agg_pc = "start"
    /\ IF /\ FileFound(stored_files, "stop_level_punctuality")
          /\ FileFound(stored_files, "geography_lookup_table")
       THEN LET df == merge_geographies_with_stop_punctuality(
                         stop_level_punctuality, geography_lookup_table)
            IN  /\ labelled' = _reaggregate_punctuality(df).labelled
                /\ geog_df' = _reaggregate_punctuality(df).result
                /\ outdir' = IF _reaggregate_punctuality(df).result.status = "ok"
                             THEN _reaggregate_punctuality(df).result.table
                             ELSE outdir
                /\ agg_pc' = "done"
                /\ UNCHANGED agg_raised
       ELSE /\ agg_raised' = "FileNotFoundError"
            /\ agg_pc' = "raised"
            /\ UNCHANGED <<labelled, geog_df, outdir>>
    /\ UNCHANGED <<stop_level_punctuality, geography_lookup_table, stored_files>>
    /\ UNCHANGED <<rt_vars, tt_vars, sched_vars, fn_vars, ing_vars>>

AggNext ==
    \/ MergeGeographiesWithStopPunctuality
    \/ ReaggregatePunctuality
    \/ PunctualityByGeography

InitAggregate == AggInit /\ RtIdle /\ TtIdle /\ SchedIdle /\ FnIdle /\ IngIdle

SpecAggregate == InitAggregate /\ [][AggNext]_vars

----------------------------------------------------------------------------
(* Time Normalization called on its own (preprocessing.py, 182-258) *)

\* Wall-clock times of day, hour 0 to 23.
TimesOfDay == {<<h, m, sec>> : h \in 0..23, m \in {0, 30, 59}, sec \in {0, 59}}

\* A date and a wall-clock time to convert.
InitTime ==
    /\ fn_input \in [date : ZoneDates, time : TimesOfDay]
    /\ fn_output = NONE
    /\ fn_pc = "start"
    /\ RtIdle /\ TtIdle /\ SchedIdle /\ AggIdle /\ IngIdle

\* convert_string_time_to_unix on the row (date, time), then
\* convert_unix_to_time_string on its result.
ConvertThereAndBack ==
    /\ fn_pc = "start"
    /\ fn_output' =
         IF replace_time_zone_raises(fn_input.date, fn_input.time)
         THEN [status |-> "ComputeError", unix |-> 0, time |-> <<0, 0, 0>>]
         ELSE [status |-> "ok",
               unix |-> convert_string_time_to_unix(fn_input.date, fn_input.time),
               time |-> convert_unix_to_time_string(
                           convert_string_time_to_unix(fn_input.date, fn_input.time))]
    /\ fn_pc' = "done"
    /\ UNCHANGED fn_input
    /\ UNCHANGED <<rt_vars, tt_vars, sched_vars, agg_vars, ing_vars>>

TimeNext == ConvertThereAndBack

SpecTime == InitTime /\ [][TimeNext]_vars

----------------------------------------------------------------------------
(* Stop Registry Loader (aggregation/preprocessing.py, 261-301;
   utils/preprocessing.py, 216-238) *)

\* The rows gb_stops.csv may hold for one stop: active or not, with its
\* latitude and longitude stored or missing; easting and northing are
\* always stored.
GbStopsRows ==
    {[ATCOCode |-> "A", Status |-> st, Latitude |-> c[1], Longitude |-> c[2],
      Easting |-> 425000, Northing |-> 565000] :
        st \in {"active", "inactive"},
        c \in {<<"54.97", "-1.61">>, <<NULL, NULL>>}}
    \cup
    {[ATCOCode |-> "B", Status |-> st, Latitude |-> c[1], Longitude |-> c[2],
      Easting |-> 424000, Northing |-> 566000] :
        st \in {"active", "inactive"},
        c \in {<<"54.98", "-1.62">>, <<NULL, NULL>>}}
    \cup
    {[ATCOCode |-> "C", Status |-> st, Latitude |-> c[1], Longitude |-> c[2],
      Easting |-> 423000, Northing |-> 567000] :
        st \in {"active", "inactive", "pending"},
        c \in {<<"54.99", "-1.63">>, <<NULL, NULL>>}}

\* The gb_stops.csv files: one row per ATCOCode.
GbStopsFiles ==
    {S \in SUBSET GbStopsRows : \A r, q \in S : r.ATCOCode = q.ATCOCode => r = q}

\* convert_lonlat(eastings, northings) on one stop: <<lon, lat>> as the
\* conversion gives them, which differ in the last digits from the stored
\* coordinates of the stop.
convert_lonlat(easting, northing) ==
    CASE easting = 425000 -> <<"-1.6100004", "54.9700003">>
      [] easting = 424000 -> <<"-1.6200004", "54.9800003">>
      [] easting = 423000 -> <<"-1.6300004", "54.9900003">>

\* pl.col(cell).fill_null(pl.col(other)) on one row.
fill_null(cell, other) == IF cell = NULL THEN other ELSE cell

\* build_stops of bus_metrics/aggregation/preprocessing.py: every row of
\* the file, its missing coordinates filled with the converted ones.
build_stops(gb_stops) ==
    {[stop_id |-> r.ATCOCode,
      stop_lat |-> fill_null(r.Latitude, convert_lonlat(r.Easting, r.Northing)[2]),
      stop_lon |-> fill_null(r.Longitude, convert_lonlat(r.Easting, r.Northing)[1])] :
        r \in gb_stops}

\* build_stops of utils/preprocessing.py: the active rows of the file; the
\* two with_columns calls are not assigned, so the stored coordinates are
\* returned as they are.
utils_build_stops(gb_stops) ==
    {[stop_id |-> r.ATCOCode, stop_lat |-> r.Latitude, stop_lon |-> r.Longitude] :
        r \in {x \in gb_stops : x.Status = "active"}}

\* A stops file stored and one of the two build_stops about to be called.
InitStops ==
    /\ fn_input \in [variant : {"bus_metrics", "utils"}, gb_stops : GbStopsFiles]
    /\ fn_output = NONE
    /\ fn_pc = "start"
    /\ RtIdle /\ TtIdle /\ SchedIdle /\ AggIdle /\ IngIdle

\* A call of bus_metrics.aggregation.preprocessing.build_stops().
BuildStops ==
    /\ fn_pc = "start"
    /\ fn_input.variant = "bus_metrics"
    /\ fn_output' = build_stops(fn_input.gb_stops)
    /\ fn_pc' = "done"
    /\ UNCHANGED fn_input
    /\ UNCHANGED <<rt_vars, tt_vars, sched_vars, agg_vars, ing_vars>>

\* A call of utils.preprocessing.build_stops().
UtilsBuildStops ==
    /\ fn_pc = "start"
    /\ fn_input.variant = "utils"
    /\ fn_output' = utils_build_stops(fn_input.gb_stops)
    /\ fn_pc' = "done"
    /\ UNCHANGED fn_input
    /\ UNCHANGED <<rt_vars, tt_vars, sched_vars, agg_vars, ing_vars>>

StopsNext == BuildStops \/ UtilsBuildStops

SpecStops == InitStops /\ [][StopsNext]_vars

----------------------------------------------------------------------------
(* Lookup Builder (setup/build_lookup.py, 9-45) *)

\* The stops frames main() hands to _build_lookup_tool: stop_id with its
\* position on a small grid.
LookupStopsRows ==
    {[stop_id |-> "A", stop_lat |-> 1, stop_lon |-> 1],
     [stop_id |-> "B", stop_lat |-> 2, stop_lon |-> 2],
     [stop_id |-> "C", stop_lat |-> 3, stop_lon |-> 1],
     [stop_id |-> "D", stop_lat |-> 5, stop_lon |-> 5]}

\* The boundary frames: each unit a rectangle of the grid; X2 overlaps X1.
BoundsRows ==
    {[code |-> "X1", name |-> "x1", lat |-> <<0, 2>>, lon |-> <<0, 2>>],
     [code |-> "X2", name |-> "x2", lat |-> <<2, 4>>, lon |-> <<0, 2>>],
     [code |-> "X3", name |-> "x3", lat |-> <<0, 1>>, lon |-> <<3, 4>>]}

\* gpd.points_from_xy(stop_lon, stop_lat) for one row.
points_from_xy(x, y) == <<x, y>>

\* predicate="within": the point lies within the unit.
Within(point, b) ==
    /\ b.lon[1] <= point[1] /\ point[1] <= b.lon[2]
    /\ b.lat[1] <= point[2] /\ point[2] <= b.lat[2]

\* stops["geometry"] = gpd.points_from_xy(...): the frame with the column.
WithGeometry(stops) ==
    {[stop_id |-> r.stop_id, stop_lat |-> r.stop_lat, stop_lon |-> r.stop_lon,
      geometry |-> points_from_xy(r.stop_lon, r.stop_lat)] : r \in stops}

\* stops.sjoin(bounds, how="left", predicate="within")[cols]: one row per
\* stop and unit the stop lies within, one row with null labels for a stop
\* within no unit.
sjoin(stops, bounds) ==
    {[stop_id |-> p[1].stop_id, stop_lat |-> p[1].stop_lat,
      stop_lon |-> p[1].stop_lon, geometry |-> p[1].geometry,
      code |-> p[2].code, name |-> p[2].name] :
        p \in {q \in stops \X bounds : Within(q[1].geometry, q[2])}}
    \cup
    {[stop_id |-> r.stop_id, stop_lat |-> r.stop_lat, stop_lon |-> r.stop_lon,
      geometry |-> r.geometry, code |-> NULL, name |-> NULL] :
        r \in {x \in stops : \A b \in bounds : ~Within(x.geometry, b)}}

\* _build_lookup_tool(stops, bounds, bounds_code, bounds_name): the caller's
\* stops frame after the call and the frame returned.
_build_lookup_tool(stops, bounds) ==
    [stops |-> WithGeometry(stops),
     df |-> sjoin(WithGeometry(stops), bounds)]

\* A stops frame and a boundary frame about to be joined.
InitLookup ==
    /\ fn_input \in [stops : SUBSET LookupStopsRows, bounds : SUBSET BoundsRows]
    /\ fn_output = NONE
    /\ fn_pc = "start"
    /\ RtIdle /\ TtIdle /\ SchedIdle /\ AggIdle /\ IngIdle

\* A call of _build_lookup_tool(stops, bounds, code, name): fn_input.stops
\* is the frame of the caller.
BuildLookupTool ==
    /\ fn_pc = "start"
    /\ fn_input' = [fn_input EXCEPT
                        !.stops = _build_lookup_tool(fn_input.stops, fn_input.bounds).stops]
    /\ fn_output' = _build_lookup_tool(fn_input.stops, fn_input.bounds).df
    /\ fn_pc' = "done"
    /\ UNCHANGED <<rt_vars, tt_vars, sched_vars, agg_vars, ing_vars>>

LookupNext == BuildLookupTool

SpecLookup == InitLookup /\ [][LookupNext]_vars

----------------------------------------------------------------------------
(* Static Data Ingest (setup/ingest_static_data.py, 47-225;
   setup/build_lookup.py, 57-85) *)

\* Most features one GeoPortal endpoint holds.
MaxFeatures == 3

\* Most features the endpoint returns in one response.
PageSize == 2

\* config["boundaries"]: the geographies build_lookup.main loops over.
Geographies == {"lad", "lsoa"}

\* boundaries[geog]["filename"].
BoundsFilename(geog) == geog \o ".geojson"

\* f"{zip_fp_root}/{region}_{date}.zip".
TimetableFilename(region, date) == region \o "_" \o date \o ".zip"

\* The files the three operations may write.
IngestFilenames ==
    {"gb_stops.csv"} \cup {BoundsFilename(g) : g \in Geographies}
    \cup {TimetableFilename(r, d) : r \in Regions, d \in Dates}

\* What upstream serves for the stops and the timetable downloads; it
\* changes from one request to the next.
UpstreamVersions == {"v1", "v2"}

NoFile == [exists |-> FALSE, content |-> <<>>]

\* os.path.exists(filename).
path_exists(files, filename) == files[filename].exists

\* The message of the FileExistsError each operation raises.
FileExistsMessage(op) ==
    CASE op = "import_stops_from_naptan" ->
            "The file you are downloading to already exists (naptan)"
      [] op = "ingest_data_from_geoportal" ->
            "The file you are downloading to already exists (bounds)"
      [] op = "ingest_bus_timetable" ->
            "The file you are downloading to already exists (timetable)"

RECURSIVE FeaturesFrom(_, _, _)
\* The features i with from <= i < upto, in order, at most n of them.
FeaturesFrom(from, upto, n) ==
    IF from >= upto \/ n = 0 THEN <<>>
    ELSE <<from>> \o FeaturesFrom(from + 1, upto, n - 1)

\* response.json() of a request to the endpoint of geog with the given
\* resultOffset: a page of features, and exceededTransferLimit true while
\* more features follow; on the last page the field is false or absent, as
\* the endpoint has it.
Response(endpoint, geog, offset) ==
    [features |-> FeaturesFrom(offset, endpoint.n_features[geog], PageSize),
     exceededTransferLimit |->
        IF offset + PageSize < endpoint.n_features[geog]
        THEN "true" ELSE endpoint.last_page]

RECURSIVE FetchMorePages(_, _, _, _, _, _)
\* The while more_pages loop: the offset of the shared query parameters
\* advances by the length of the first page before each request.
FetchMorePages(endpoint, geog, resultOffset, offset, gdf, requests) ==
    LET next == resultOffset + offset
        content == Response(endpoint, geog, next)
    IN  IF content.exceededTransferLimit = "true"
        THEN FetchMorePages(endpoint, geog, next, offset,
                            gdf \o content.features,
                            Append(requests, <<geog, next>>))
        ELSE [gdf |-> gdf \o content.features,
              resultOffset |-> next,
              requests |-> Append(requests, <<geog, next>>),
              raised |-> NONE]

\* Lines 162-182 of ingest_data_from_geoportal: the frame downloaded, the
\* resultOffset the instance is left with, and the requests made.  The
\* first request is made with the query parameters as they are; reading
\* exceededTransferLimit of the first response raises KeyError when the
\* field is absent.
download_from_geoportal(endpoint, geog, resultOffset) ==
    LET content == Response(endpoint, geog, resultOffset)
    IN  CASE content.exceededTransferLimit = "absent" ->
                [gdf |-> <<>>, resultOffset |-> resultOffset,
                 requests |-> <<<<geog, resultOffset>>>>, raised |-> "KeyError"]
          [] content.exceededTransferLimit = "true" ->
                FetchMorePages(endpoint, geog, resultOffset,
                               Len(content.features), content.features,
                               <<<<geog, resultOffset>>>>)
          [] OTHER ->
                [gdf |-> content.features, resultOffset |-> resultOffset,
                 requests |-> <<<<geog, resultOffset>>>>, raised |-> NONE]

\* A file written whether it exists or not.
MayWrite_Always(files, filename) == TRUE

\* if not os.path.exists(filename): ... else: raise FileExistsError.
MayWrite(files, filename) == ~path_exists(files, filename)

\* A StaticDataIngest just constructed, no file stored yet; the configured
\* resultOffset is 0.
IngInit ==
    /\ ing_files = [f \in IngestFilenames |-> NoFile]
    /\ ing_offset \in {0}
    /\ ing_endpoint \in [n_features : [Geographies -> 1..MaxFeatures],
                         last_page : {"false", "absent"}]
    /\ ing_today \in {"20240221"}
    /\ ing_call = [op |-> "none", file |-> "gb_stops.csv",
                   files |-> [f \in IngestFilenames |-> NoFile],
                   resultOffset |-> 0]
    /\ ing_requests = <<>>
    /\ ing_raised = NONE

InitIngest == IngInit /\ RtIdle /\ TtIdle /\ SchedIdle /\ AggIdle /\ FnIdle

\* What every ingest call records of itself.
IngestCalled(op, filename) ==
    ing_call' = [op |-> op, file |-> filename, files |-> ing_files,
                 resultOffset |-> ing_offset]

\* StaticDataIngest.import_stops_from_naptan().
ImportStopsFromNaptan ==
    /\ IngestCalled("import_stops_from_naptan", "gb_stops.csv")
    /\ IF MayWrite(ing_files, "gb_stops.csv")
       THEN \E v \in UpstreamVersions :
                /\ ing_files' = [ing_files EXCEPT
                       !["gb_stops.csv"] = [exists |-> TRUE, content |-> <<v>>]]
                /\ ing_requests' = <<<<"naptan", 0>>>>
                /\ ing_raised' = NONE
       ELSE /\ ing_raised' = FileExistsMessage("import_stops_from_naptan")
            /\ ing_requests' = <<>>
            /\ UNCHANGED ing_files
    /\ UNCHANGED <<ing_offset, ing_endpoint, ing_today>>
    /\ UNCHANGED <<rt_vars, tt_vars, sched_vars, agg_vars, fn_vars>>

\* StaticDataIngest.ingest_data_from_geoportal(url, filename) with the url
\* and the file name of one geography, as build_lookup.main calls it.
IngestDataFromGeoportal(geog) ==
    /\ IngestCalled("ingest_data_from_geoportal", BoundsFilename(geog))
    /\ IF MayWrite(ing_files, BoundsFilename(geog))
       THEN LET d == download_from_geoportal(ing_endpoint, geog, ing_offset)
            IN  /\ ing_files' =
                       IF d.raised = NONE
                       THEN [ing_files EXCEPT ![BoundsFilename(geog)] =
                                [exists |-> TRUE, content |-> d.gdf]]
                       ELSE ing_files
                /\ ing_offset' = d.resultOffset
                /\ ing_requests' = d.requests
                /\ ing_raised' = d.raised
       ELSE /\ ing_raised' = FileExistsMessage("ingest_data_from_geoportal")
            /\ ing_requests' = <<>>
            /\ UNCHANGED <<ing_files, ing_offset>>
    /\ UNCHANGED <<ing_endpoint, ing_today>>
    /\ UNCHANGED <<rt_vars, tt_vars, sched_vars, agg_vars, fn_vars>>

\* StaticDataIngest.ingest_bus_timetable(region).
IngestBusTimetable(region) ==
    LET filename == TimetableFilename(region, ing_today)
    IN  /\ IngestCalled("ingest_bus_timetable", filename)
        /\ IF MayWrite(ing_files, filename)
           THEN \E v \in UpstreamVersions :
                    /\ ing_files' = [ing_files EXCEPT
                           ![filename] = [exists |-> TRUE, content |-> <<v>>]]
                    /\ ing_requests' = <<<<region, 0>>>>
                    /\ ing_raised' = NONE
           ELSE /\ ing_raised' = FileExistsMessage("ingest_bus_timetable")
                /\ ing_requests' = <<>>
                /\ UNCHANGED ing_files
        /\ UNCHANGED <<ing_offset, ing_endpoint, ing_today>>
        /\ UNCHANGED <<rt_vars, tt_vars, sched_vars, agg_vars, fn_vars>>

\* Midnight passes: datetime.now().date() is the next day.
NextDay ==
    /\ ing_today = "20240221"
    /\ ing_today' = "20240222"
    /\ UNCHANGED <<ing_files, ing_offset, ing_endpoint, ing_call,
                   ing_requests, ing_raised>>
    /\ UNCHANGED <<rt_vars, tt_vars, sched_vars, agg_vars, fn_vars>>

IngestNext ==
    \/ ImportStopsFromNaptan
    \/ \E geog \in Geographies : IngestDataFromGeoportal(geog)
    \/ \E region \in Regions : IngestBusTimetable(region)
    \/ NextDay

SpecIngest == InitIngest /\ [][IngestNext]_vars

----------------------------------------------------------------------------
(* unzip_GTFS called on its own (aggregation/preprocessing.py, 83-149) *)

\* The archives zip_path may hold: the glob pattern "*<region>_<date>.zip"
\* also matches a name with something before the region.
ZipPathArchives ==
    {[region |-> "north_east", date |-> "20240221", prefix |-> ""],
     [region |-> "north_east", date |-> "20240221", prefix |-> "copy_"],
     [region |-> "north_west", date |-> "20240222", prefix |-> ""]}

\* A file of txt_path left by an earlier extraction.
EARLIER == [region |-> "<earlier>", date |-> "<earlier>"]

\* The states of txt_path: which of the nine files are there.
TxtPaths ==
    {[f \in TxtFiles |-> IF f \in absent THEN MISSING ELSE EARLIER] :
        absent \in {TxtFiles, {}, {"stops.txt", "trips.txt"}, {"agency.txt"}}}

\* The directories and the pattern of one call.
InitUnzip ==
    /\ fn_input \in [txt : TxtPaths, zip : SUBSET ZipPathArchives,
                     region : Regions, date : Dates]
    /\ fn_output = NONE
    /\ fn_pc = "start"
    /\ RtIdle /\ TtIdle /\ SchedIdle /\ AggIdle /\ IngIdle

\* A call of unzip_GTFS(txt_path, zip_path, f"{region}_{date}.zip").
UnzipGTFS ==
    /\ fn_pc = "start"
    /\ fn_output' = unzip_GTFS(fn_input.zip, fn_input.txt, fn_input.region,
                               fn_input.date)
    /\ fn_pc' = "done"
    /\ UNCHANGED fn_input
    /\ UNCHANGED <<rt_vars, tt_vars, sched_vars, agg_vars, ing_vars>>

UnzipNext == UnzipGTFS

SpecUnzip == InitUnzip /\ [][UnzipNext]_vars

----------------------------------------------------------------------------
(* The window of build_timetable on one service stop
   (build_schedules.py, 266-277; preprocessing.py, 152-219) *)

\* A date, the arrival_time of a service stop of that date, and the window
\* the Schedule_Builder is configured with.
InitWindow ==
    /\ fn_input \in [date : ZoneDates, time : TimesOfDay, window : TimeWindows]
    /\ fn_output = NONE
    /\ fn_pc = "start"
    /\ RtIdle /\ TtIdle /\ SchedIdle /\ AggIdle /\ IngIdle

\* The arrival time converted by convert_string_time_to_unix and tested
\* against the bounds build_timetable computes for the date.
WindowOnStop ==
    /\ fn_pc = "start"
    /\ fn_output' =
         IF replace_time_zone_raises(fn_input.date, fn_input.time)
         THEN [status |-> "ComputeError", unix |-> 0, selected |-> FALSE]
         ELSE [status |-> "ok",
               unix |-> convert_string_time_to_unix(fn_input.date, fn_input.time),
               selected |->
                  InWindow(convert_string_time_to_unix(fn_input.date, fn_input.time),
                           tt_time_from(fn_input.date, fn_input.window[1]),
                           tt_time_to(fn_input.date, fn_input.window[2]))]
    /\ fn_pc' = "done"
    /\ UNCHANGED fn_input
    /\ UNCHANGED <<rt_vars, tt_vars, sched_vars, agg_vars, ing_vars>>

WindowNext == WindowOnStop

SpecWindow == InitWindow /\ [][WindowNext]_vars

----------------------------------------------------------------------------
(* The punctual flag of the two Schedule_Builder variants
   (make_data/build_schedules.py, 129-154;
    bus_metrics/aggregation/build_schedules.py, 366-379) *)

\* make_data punctuality_by_lsoa:
\* when((relative_punctuality > -300) | (relative_punctuality < 60)).then(1).otherwise(0)
punctual_by_lsoa(rel) == IF rel > -300 \/ rel < 60 THEN 1 ELSE 0

\* Values of relative_punctuality, in seconds, on both sides of both bounds.
RelativePunctualities == (0 - 330)..90

\* A stop event with its relative_punctuality.
InitFlag ==
    /\ fn_input \in [relative_punctuality : RelativePunctualities]
    /\ fn_output = NONE
    /\ fn_pc = "start"
    /\ RtIdle /\ TtIdle /\ SchedIdle /\ AggIdle /\ IngIdle

\* The stop event flagged by both variants.
FlagByBothVariants ==
    /\ fn_pc = "start"
    /\ fn_output' = [make_data |-> punctual_by_lsoa(fn_input.relative_punctuality),
                     bus_metrics |-> punctual(fn_input.relative_punctuality)]
    /\ fn_pc' = "done"
    /\ UNCHANGED fn_input
    /\ UNCHANGED <<rt_vars, tt_vars, sched_vars, agg_vars, ing_vars>>

FlagNext == FlagByBothVariants

SpecFlag == InitFlag /\ [][FlagNext]_vars

----------------------------------------------------------------------------
(* Ping files from the ingest to the Realtime Loader
   (setup/ingest_realtime_data.py, 82-86; build_schedules.py, 201-212) *)

\* The year, month and day fields of a date.
DateFields(date) ==
    CASE date = "20240221" -> <<"2024", "02", "21">>
      [] date = "20240222" -> <<"2024", "02", "22">>

\* Times of the clock at which a ping file is written: hour, minute, second.
ClockTimes ==
    {<<h, m, "00">> : h \in {"07", "08", "23"}, m \in {"00", "30"}}

\* datetime.now().strftime("%Y-%m-%d-%H:%M:%S"), field by field.
fileTimeStamp(date, clock) ==
    <<DateFields(date)[1], "-", DateFields(date)[2], "-", DateFields(date)[3],
      "-", clock[1], ":", clock[2], ":", clock[3]>>

\* f"{self.store_data_fp}_{fileTimeStamp}.csv" in data/realtime: the region
\* and what stands between "<region>_" and ".csv".
PingFilename(region, date, clock) ==
    [region |-> region, stamp |-> fileTimeStamp(date, clock)]

\* The name begins with the fields p.
IsPrefix(p, name) == Len(p) <= Len(name) /\ SubSeq(name, 1, Len(p)) = p

\* glob.glob(os.path.join(dir, f"{region}_{date}*.csv")) with date in
\* %Y%m%d: the files named "<region>_<date>" followed by anything.
GlobPingFiles(files, region, date) ==
    {f \in files : f.region = region /\ IsPrefix(DateFields(date), f.stamp)}

\* The region and the moment of an ingest, and the region and the date the
\* Realtime Loader is then asked for.
InitPingFiles ==
    /\ fn_input \in [region : Regions, now_date : Dates, now_clock : ClockTimes,
                     load_region : Regions, load_date : Dates]
    /\ fn_output = NONE
    /\ fn_pc = "start"
    /\ RtIdle /\ TtIdle /\ SchedIdle /\ AggIdle /\ IngIdle

\* rTool.parse_realtime() writes its file under the default name, then
\* load_raw_realtime_data(region, date) collects its tables.
ParseRealtimeThenLoad ==
    /\ fn_pc = "start"
    /\ LET written == PingFilename(fn_input.region, fn_input.now_date,
                                   fn_input.now_clock)
       IN  fn_output' =
              [written |-> written,
               tables |-> GlobPingFiles({written}, fn_input.load_region,
                                        fn_input.load_date)]
    /\ fn_pc' = "done"
    /\ UNCHANGED fn_input
    /\ UNCHANGED <<rt_vars, tt_vars, sched_vars, agg_vars, ing_vars>>

PingFilesNext == ParseRealtimeThenLoad

SpecPingFiles == InitPingFiles /\ [][PingFilesNext]_vars

----------------------------------------------------------------------------
(* The stop-level file from the Schedule Builder to the Geography Aggregator
   (build_schedules.py, 445-454; punctuality_rate.py, 34-50; run.py, 25-26) *)

\* Stop-level tables the Schedule Builder may persist.
PersistedTables ==
    SUBSET {r \in StopPunctualityRows : r.stop_id \in {"1", "2"}}

\* f"data/stop_level_punctuality/punctuality_by_stop_{region}_{date}.csv".
StopLevelFilename(region, date) ==
    "punctuality_by_stop_" \o region \o "_" \o date \o ".csv"

\* The names of the stop-level files of the model.
StopLevelFilenames == {StopLevelFilename(r, d) : r \in Regions, d \in Dates}

NoTable == [exists |-> FALSE, table |-> {}]

\* A directory that may hold the file of an earlier run, the region, the
\* date and the table the Schedule Builder is about to persist, and the
\* day on which the aggregation will then run.
InitHandover ==
    /\ fn_input \in [region : Regions, date : Dates, table : PersistedTables,
                     today : Dates]
    /\ fn_output \in
          {[files |-> [f \in StopLevelFilenames |->
                          IF f \in present
                          THEN [exists |-> TRUE, table |-> {}]
                          ELSE NoTable],
            read |-> [status |-> "none", table |-> {}]] :
              present \in SUBSET StopLevelFilenames}
    /\ fn_pc = "start"
    /\ RtIdle /\ TtIdle /\ SchedIdle /\ AggIdle /\ IngIdle

\* __main__ of build_schedules.py writes the stop-level table of the run to
\* the file named for builder.region and the date argument.
PersistStopLevelPunctuality ==
    /\ fn_pc = "start"
    /\ fn_output' =
          [fn_output EXCEPT
              !.files[StopLevelFilename(fn_input.region, fn_input.date)] =
                  [exists |-> TRUE, table |-> fn_input.table]]
    /\ fn_pc' = "persisted"
    /\ UNCHANGED fn_input
    /\ UNCHANGED <<rt_vars, tt_vars, sched_vars, agg_vars, ing_vars>>

\* The stop-level file an AggregationTool constructed on the day today
\* reads: self.date = datetime.now().strftime("%Y%m%d").
AggregationToolFile(region, today) == StopLevelFilename(region, today)

\* run.py on the day fn_input.today: AggregationTool() for the region, then
\* the read of its stop-level file (FileNotFoundError when it is absent).
RunAggregation ==
    /\ fn_pc = "persisted"
    /\ LET f == fn_output.files[AggregationToolFile(fn_input.region, fn_input.today)]
       IN  fn_output' =
              [fn_output EXCEPT
                  !.read = IF f.exists
                           THEN [status |-> "ok", table |-> f.table]
                           ELSE [status |-> "FileNotFoundError", table |-> {}]]
    /\ fn_pc' = "aggregated"
    /\ UNCHANGED fn_input
    /\ UNCHANGED <<rt_vars, tt_vars, sched_vars, agg_vars, ing_vars>>

HandoverNext == PersistStopLevelPunctuality \/ RunAggregation

SpecHandover == InitHandover /\ [][HandoverNext]_vars

----------------------------------------------------------------------------
(* Properties of the Schedule Reconciler *)

\* C1: punctuality_by_stop flags a matched stop event punctual (1) exactly
\* when -300 < scheduled_arrival_unix - time_transpond < 60, both bounds
\* strict: differences of -300 and 60 give 0, -299 and 59 give 1.
C1_StrictBounds ==
    sched_pc = "done" =>
        \A r \in schedule :
            LET diff == r.unix_arrival_time - r.time_transpond
            IN  /\ r.relative_punctuality = diff
                /\ r.punctual \in {0, 1}
                /\ r.punctual = 1 <=> (-300 < diff /\ diff < 60)
                /\ diff \in {-300, 60} => r.punctual = 0
                /\ diff \in {-299, 59} => r.punctual = 1

\* C1 witness: the schedule holds an event at the lower bound flagged 0 and
\* an event one second inside it flagged 1.
C1_Witness ==
    /\ sched_pc = "done"
    /\ \E r \in schedule : r.relative_punctuality = -300 /\ r.punctual = 0
    /\ \E r \in schedule : r.relative_punctuality = -299 /\ r.punctual = 1

\* C1, upper bound reached: an event at 60 flagged 0 and one at 59 flagged 1.
C1_WitnessUpper ==
    /\ sched_pc = "done"
    /\ \E r \in schedule : r.relative_punctuality = 60 /\ r.punctual = 0
    /\ \E r \in schedule : r.relative_punctuality = 59 /\ r.punctual = 1

\* Seconds the bus was transmitted at the stop before its scheduled arrival.
SecondsEarly(r) == r.unix_arrival_time - r.time_transpond

\* Seconds the bus was transmitted at the stop after its scheduled arrival.
SecondsLate(r) == r.time_transpond - r.unix_arrival_time

\* C2 (as stated): an event is punctual exactly when the bus is no more than
\* 5 minutes early and no more than 1 minute late, early meaning transmitted
\* before the scheduled time: 4 minutes early is punctual, 2 minutes late is
\* not.
C2_Original ==
    sched_pc = "done" =>
        \A r \in schedule :
            /\ r.punctual = 1 => (SecondsEarly(r) <= 300 /\ SecondsLate(r) <= 60)
            /\ (SecondsEarly(r) < 300 /\ SecondsLate(r) < 60) => r.punctual = 1
            /\ SecondsEarly(r) = 240 => r.punctual = 1
            /\ SecondsLate(r) = 120 => r.punctual = 0

\* C2 (amended): an event is punctual exactly when the bus is less than
\* 1 minute early and less than 5 minutes late, early meaning transmitted
\* before the scheduled time: 4 minutes early is not punctual, 2 minutes
\* late is.
C2_OneMinuteEarlyFiveLate ==
    sched_pc = "done" =>
        \A r \in schedule :
            /\ r.punctual = 1 <=> (SecondsEarly(r) < 60 /\ SecondsLate(r) < 300)
            /\ SecondsEarly(r) = 240 => r.punctual = 0
            /\ SecondsLate(r) = 120 => r.punctual = 1

\* C2 witness: the schedule holds an event 4 minutes early flagged 0 and an
\* event 2 minutes late flagged 1.
C2_Witness ==
    /\ sched_pc = "done"
    /\ \E r \in schedule : SecondsEarly(r) = 240 /\ r.punctual = 0
    /\ \E r \in schedule : SecondsLate(r) = 120 /\ r.punctual = 1

\* The UIDs of a table.
UIDsOf(table) == {r.UID : r \in table}

\* The smaller of two numbers.
Min(a, b) == IF a <= b THEN a ELSE b

\* C6: the inner join of the tables build_timetable and build_realtime
\* produced yields at most min(|timetable|, |realtime|) records, every
\* record's UID occurs in both inputs, each UID common to both yields exactly
\* one record, and unmatched rows of either side contribute nothing.
C6_InnerJoinExclusive ==
    sched_pc = "done" =>
        /\ Cardinality(schedule) <= Min(Cardinality(tt_out.table), Cardinality(rt_df))
        /\ \A r \in schedule : r.UID \in UIDsOf(tt_out.table) \cap UIDsOf(rt_df)
        /\ \A u \in UIDsOf(tt_out.table) \cap UIDsOf(rt_df) :
             Cardinality({r \in schedule : r.UID = u}) = 1

\* C6 witness: the join has run on a timetable and a realtime table that
\* share a UID, each with a UID the other lacks, where the UID shared was
\* transmitted more than once and scheduled more than once in the inputs.
C6_Witness ==
    /\ sched_pc = "done"
    /\ schedule # {}
    /\ UIDsOf(tt_out.table) \ UIDsOf(rt_df) # {}
    /\ UIDsOf(rt_df) \ UIDsOf(tt_out.table) # {}
    /\ \E r \in schedule :
         /\ Cardinality({i \in 1..Len(realtime_dir) :
                           /\ IsLabelled(realtime_dir[i])
                           /\ WithRealtimeUID(realtime_dir[i]).UID = r.UID}) > 1
         /\ Cardinality({l \in tt_loaded : WithTimetableUID(l).UID = r.UID}) > 1

----------------------------------------------------------------------------
(* Properties of the Timetable Loader *)

\* The last timetable call returned a table.
TimetableCallOk == n_calls > 0 /\ tt_out.status = "ok"

\* The date load_raw_timetable_data worked with in the last call: its date
\* argument, or self.date when build_timetable called it.
LoadDate ==
    IF tt_call.op = "load_raw_timetable_data" THEN tt_call.date ELSE self_date

\* Services whose calendar flag for the weekday of date d is 1.
C5_Flagged(d) ==
    {c.service_id : c \in {x \in tt_tables.calendar : x[Weekday(d)] = 1}}

\* Services with a calendar_dates entry of type e dated d.
C5_Excepted(d, e) ==
    {c.service_id : c \in {x \in tt_tables.calendar_dates :
                              x.date = d /\ x.exception_type = e}}

\* The services C5 lets through on date d.
C5_Allowed(d) == (C5_Flagged(d) \cup C5_Excepted(d, 1)) \ C5_Excepted(d, 2)

\* C5: load_raw_timetable_data keeps the service stops of a trip only if the
\* trip's service_id is in (flagged for the weekday of the target date,
\* union added on the target date) minus dropped on the target date; a
\* service added and dropped that day is excluded, and exceptions dated
\* other days change nothing: a trip of such a service on a retained route,
\* arriving before 24:00, is kept.
C5_ActiveServicesOnly ==
    TimetableCallOk =>
        /\ \A r \in tt_loaded : r.service_id \in C5_Allowed(LoadDate)
        /\ \A t \in tt_tables.trips, st \in tt_tables.stop_times :
             (/\ t.trip_id = st.trip_id
              /\ t.service_id \in C5_Allowed(LoadDate)
              /\ \E ro \in tt_tables.routes :
                    ro.route_id = t.route_id /\ ro.route_type \in route_types
              /\ st.arrival_time[1] < 24)
             => \E r \in tt_loaded :
                    /\ r.trip_id = t.trip_id
                    /\ r.stop_sequence = st.stop_sequence
                    /\ r.stop_id = st.stop_id

\* C5 witness: a load has returned the stops of an archive in which service
\* S1 is flagged for the weekday and both added and dropped on the target
\* date, holds an exception dated another day, and none of its stops is kept.
C5_Witness ==
    /\ TimetableCallOk
    /\ tt_call.op = "load_raw_timetable_data"
    /\ "S1" \in C5_Flagged(LoadDate)
    /\ "S1" \in C5_Excepted(LoadDate, 1) \cap C5_Excepted(LoadDate, 2)
    /\ tt_loaded # {}
    /\ \A r \in tt_loaded : r.service_id # "S1"

\* C5 second case reached: a drop dated another day leaves the service in.
C5_OtherDayWitness ==
    /\ TimetableCallOk
    /\ C5_Excepted(LoadDate, 2) = {}
    /\ \E x \in tt_tables.calendar_dates : x.date # LoadDate /\ x.exception_type = 2
    /\ \E r \in tt_loaded : r.service_id = "S1"

\* A row of build_timetable's result without its UID column.
WithoutUID(r) ==
    [trip_id |-> r.trip_id, route_id |-> r.route_id, service_id |-> r.service_id,
     stop_id |-> r.stop_id, stop_sequence |-> r.stop_sequence,
     arrival_time |-> r.arrival_time, stop_lat |-> r.stop_lat,
     stop_lon |-> r.stop_lon, route_type |-> r.route_type,
     timetable_date |-> r.timetable_date,
     unix_arrival_time |-> r.unix_arrival_time]

\* The last call was build_timetable with a time window requested, and
\* returned a table.
WindowedBuild ==
    TimetableCallOk /\ tt_call.op = "build_timetable" /\ partial_timetable

\* Half-seconds from local midnight of the call's date to a unix time.
HalfSecondsIntoDay(unix) ==
    2 * (unix - convert_SINGLE_datetime_to_unix(tt_call.date))

\* C9 (as stated): with a time window requested, build_timetable returns
\* exactly the service stops scheduled within the closed interval
\* [window_start - 1800, window_end + 1800].
C9_Original ==
    WindowedBuild =>
        /\ \A r \in tt_out.table :
             /\ WithoutUID(r) \in tt_loaded
             /\ HalfSecondsIntoDay(r.unix_arrival_time) >= time_from - 3600
             /\ HalfSecondsIntoDay(r.unix_arrival_time) <= time_to + 3600
        /\ \A l \in tt_loaded :
             (/\ HalfSecondsIntoDay(l.unix_arrival_time) >= time_from - 3600
              /\ HalfSecondsIntoDay(l.unix_arrival_time) <= time_to + 3600)
             => \E r \in tt_out.table : r.UID = WithTimetableUID(l).UID

\* C9 (amended): with a time window requested, build_timetable returns
\* exactly the service stops scheduled within the half-open interval
\* [window_start - 1800, window_end + 1800), both bounds truncated to whole
\* seconds: a stop scheduled exactly at window_end + 1800 is dropped.
C9_HalfOpenWindow ==
    WindowedBuild =>
        LET lo == convert_SINGLE_datetime_to_unix(tt_call.date)
                    + ((time_from - 3600) \div 2)
            hi == convert_SINGLE_datetime_to_unix(tt_call.date)
                    + ((time_to + 3600) \div 2)
        IN  /\ \A r \in tt_out.table :
                 /\ WithoutUID(r) \in tt_loaded
                 /\ lo <= r.unix_arrival_time
                 /\ r.unix_arrival_time < hi
            /\ \A l \in tt_loaded :
                 (lo <= l.unix_arrival_time /\ l.unix_arrival_time < hi)
                 => \E r \in tt_out.table : r.UID = WithTimetableUID(l).UID

\* C9 witness: a windowed build_timetable has dropped a loaded stop scheduled
\* exactly at window_end + 1800 and kept one scheduled at window_start - 1800.
C9_Witness ==
    /\ WindowedBuild
    /\ \E l \in tt_loaded :
         /\ HalfSecondsIntoDay(l.unix_arrival_time) = time_to + 3600
         /\ \A r \in tt_out.table : r.UID # WithTimetableUID(l).UID
    /\ \E r \in tt_out.table :
         HalfSecondsIntoDay(r.unix_arrival_time) = time_from - 3600

\* C10: invocations share no state: every load_raw_timetable_data(region,
\* date) on a timetable directory behaves as the first one would: it fails
\* when the directory holds no archive of that region and date, and
\* otherwise reads the tables of that archive only and returns the table
\* built from them.
C10_NoSharedState ==
    (n_calls > 0 /\ tt_call.op = "load_raw_timetable_data") =>
        LET key == [region |-> tt_call.region, date |-> tt_call.date]
        IN  IF key \in zip_dir
            THEN /\ tt_out.status = "ok"
                 /\ tt_tables = ReadTables([f \in TxtFiles |-> key], gtfs_variant)
                 /\ tt_out.table =
                      load_raw_timetable_data(
                          ReadTables([f \in TxtFiles |-> key], gtfs_variant),
                          StopRegistry, tt_call.date)
            ELSE tt_out.status = "ValueError"

\* C10 holds of the first load on a fresh directory (the claim's reference).
C10_FirstInvocation == n_calls <= 1 => C10_NoSharedState

----------------------------------------------------------------------------
(* Properties of the Realtime Loader *)

\* The UID build_realtime gives a ping.
PingUID(p) == WithRealtimeUID(p).UID

\* The labelled pings of the loaded frame that share the UID of p.
SameUIDPings(p) ==
    {q \in Range(realtime_dir) : IsLabelled(q) /\ PingUID(q) = PingUID(p)}

\* b comes after a in (time_transpond, time_ingest) order.
LaterPing(b, a) ==
    \/ b.time_transpond > a.time_transpond
    \/ b.time_transpond = a.time_transpond /\ b.time_ingest > a.time_ingest

HalfLabelledRows ==
    {i \in 1..Len(realtime_dir) :
        (realtime_dir[i].trip_id = NULL) # (realtime_dir[i].route_id = NULL)}

\* C4 (as stated): split_realtime_data partitions its input, a ping being
\* unlabelled whenever it is not labelled, so the two outputs together have
\* as many rows as the input.
C4_Original ==
    "split" \in rt_pc =>
        /\ Len(labelled_real) + Len(unlabelled_real) = Len(realtime_dir)
        /\ \A i \in 1..Len(realtime_dir) :
             \/ realtime_dir[i] \in Range(labelled_real)
             \/ realtime_dir[i] \in Range(unlabelled_real)

\* C4 (amended): every ping lands in at most one output: labelled when both
\* trip_id and route_id are non-null, unlabelled when both are null; a ping
\* with exactly one of them null lands in neither, so
\* len(labelled) + len(unlabelled) = len(input) - (number of such pings).
C4_SplitDropsHalfLabelled ==
    "split" \in rt_pc =>
        /\ \A i \in 1..Len(labelled_real) :
             labelled_real[i].trip_id # NULL /\ labelled_real[i].route_id # NULL
        /\ \A i \in 1..Len(unlabelled_real) :
             unlabelled_real[i].trip_id = NULL /\ unlabelled_real[i].route_id = NULL
        /\ Len(labelled_real) =
             Cardinality({i \in 1..Len(realtime_dir) :
                 realtime_dir[i].trip_id # NULL /\ realtime_dir[i].route_id # NULL})
        /\ Len(unlabelled_real) =
             Cardinality({i \in 1..Len(realtime_dir) :
                 realtime_dir[i].trip_id = NULL /\ realtime_dir[i].route_id = NULL})
        /\ Len(labelled_real) + Len(unlabelled_real)
             = Len(realtime_dir) - Cardinality(HalfLabelledRows)

\* C4 witness: split_realtime_data has run on a frame with a labelled ping,
\* a ping with both identifiers missing and a ping with only one missing.
C4_Witness ==
    /\ "split" \in rt_pc
    /\ Len(labelled_real) > 0
    /\ Len(unlabelled_real) > 0
    /\ HalfLabelledRows # {}

----------------------------------------------------------------------------
(* Properties of the Geography Aggregator *)

\* The aggregation has returned a table.
AggregationOk ==
    /\ agg_pc \in {"reaggregated", "done"}
    /\ geog_df.status = "ok"

\* The rows of the frame df that carry the geography labels k.
RowsOfGeography(df, k) == {r \in df : r.code = k[1] /\ r.name = k[2]}

\* The geography labels (non-null code and name) of the frame df.
GeographiesOf(df) ==
    {<<r.code, r.name>> : r \in {q \in df : q.code # NULL /\ q.name # NULL}}

\* The greatest integer not above service_stops * punctuality_rate.
Truncated(r) ==
    CHOOSE n \in 0..(r.service_stops + 1) :
        /\ n * r.punctuality_rate[2] <= r.service_stops * r.punctuality_rate[1]
        /\ (n + 1) * r.punctuality_rate[2] > r.service_stops * r.punctuality_rate[1]

\* The sum over the rows S of the truncated products.
RECURSIVE SumTruncated(_)
SumTruncated(S) ==
    IF S = {} THEN 0
    ELSE LET x == CHOOSE y \in S : TRUE
         IN  Truncated(x) + SumTruncated(S \ {x})

\* The (service_stops, punctuality_rate) cells of the rows S.
ServiceCells(S) == {<<r.service_stops, r.punctuality_rate>> : r \in S}

\* C7: _reaggregate_punctuality returns one row per distinct (geography
\* code, geography name) pair of the labelled frame, with service_stops the
\* sum of its stops' service_stops, punctual_service_stops the sum over its
\* stops of service_stops * punctuality_rate truncated to an integer per
\* stop before summing, and punctuality_rate = punctual_service_stops /
\* service_stops; two stops (10, 0.8) and (30, 0.7) in one geography give
\* 40, 29 and 0.725.
C7_ReaggregateSums ==
    AggregationOk =>
        /\ \A k \in GeographiesOf(labelled) :
              Cardinality(RowsOfGeography(geog_df.table, k)) = 1
        /\ \A g \in geog_df.table :
              /\ <<g.code, g.name>> \in GeographiesOf(labelled)
              /\ g.service_stops =
                    SumColumn(RowsOfGeography(labelled, <<g.code, g.name>>),
                              "service_stops")
              /\ g.punctual_service_stops =
                    SumTruncated(RowsOfGeography(labelled, <<g.code, g.name>>))
              /\ g.punctuality_rate = <<g.punctual_service_stops, g.service_stops>>
              /\ (/\ Cardinality(RowsOfGeography(labelled, <<g.code, g.name>>)) = 2
                  /\ ServiceCells(RowsOfGeography(labelled, <<g.code, g.name>>))
                        = {<<10, <<8, 10>>>>, <<30, <<7, 10>>>>})
                 => /\ g.service_stops = 40
                    /\ g.punctual_service_stops = 29
                    /\ g.punctuality_rate[1] * 1000 = 725 * g.punctuality_rate[2]

\* Stops (10, 0.8) and (30, 0.7) of geography ("1", "A") have been
\* re-aggregated next to the stop (20, 0.9) of geography ("2", "B").
C7_Witness ==
    /\ AggregationOk
    /\ ServiceCells(RowsOfGeography(labelled, <<"1", "A">>))
          = {<<10, <<8, 10>>>>, <<30, <<7, 10>>>>}
    /\ \E g \in geog_df.table :
          g.code = "1" /\ g.name = "A" /\ g.service_stops = 40
            /\ g.punctual_service_stops = 29
    /\ \E g \in geog_df.table :
          g.code = "2" /\ g.name = "B" /\ g.service_stops = 20
            /\ g.punctual_service_stops = 18

\* A stop whose product is not whole (3 * 0.5) has been re-aggregated.
C7_WitnessTruncation ==
    /\ AggregationOk
    /\ \E r \in labelled :
          r.code # NULL /\ r.service_stops = 3 /\ r.punctual_service_stops = 1

\* The geography units of the lookup table.
LookupGeographies == GeographiesOf(geography_lookup_table)

\* The geography units of the stops of the punctuality file: the units of
\* the lookup rows that some stop row joins with.
ServedGeographies ==
    {<<l.code, l.name>> :
        l \in {m \in geography_lookup_table :
                 /\ m.code # NULL /\ m.name # NULL
                 /\ \E s \in stop_level_punctuality :
                       m \in LookupMatches(s, geography_lookup_table)}}

\* C8 as stated: punctuality_by_geography never raises, its output has a
\* row for every geography unit of the lookup table, and a row with zero
\* service stops has a NaN punctuality_rate.
C8_Original ==
    agg_pc = "done" =>
        /\ geog_df.status = "ok"
        /\ \A k \in LookupGeographies :
              \E g \in geog_df.table :
                  /\ g.code = k[1] /\ g.name = k[2]
                  /\ g.service_stops = 0 => IsNaN(g.punctuality_rate)

\* C8 as amended: punctuality_by_geography returns a table unless a stop
\* row has a NaN punctuality_rate (then it raises and writes nothing); the
\* table has a row for exactly the geography units that some stop row of
\* the punctuality file joins with, so a unit of the lookup table without
\* such a stop row is omitted; a row has a NaN punctuality_rate exactly
\* when its stop rows sum to zero service stops.
C8_NaNRowOnlyForJoinedUnits ==
    agg_pc = "done" =>
        /\ (geog_df.status = "ok") <=>
              (\A s \in stop_level_punctuality : ~IsNaN(s.punctuality_rate))
        /\ geog_df.status = "ok" =>
              /\ {<<g.code, g.name>> : g \in geog_df.table} = ServedGeographies
              /\ \A g \in geog_df.table :
                    IsNaN(g.punctuality_rate) <=> (g.service_stops = 0)
              /\ outdir = geog_df.table
        /\ geog_df.status # "ok" => outdir = NONE

\* A unit without service has its NaN row while a unit of the lookup
\* table without a stop row in the punctuality file has none.
C8_Witness ==
    /\ agg_pc = "done"
    /\ geog_df.status = "ok"
    /\ \E g \in geog_df.table : g.service_stops = 0 /\ IsNaN(g.punctuality_rate)
    /\ \E k \in LookupGeographies :
          \A g \in geog_df.table : <<g.code, g.name>> # k

\* The aggregation has raised on a stop row with a NaN punctuality_rate.
C8_WitnessRaise ==
    /\ agg_pc = "done"
    /\ geog_df.status = "IntCastingNaNError"

\* The (date, current_stop, trip_id, route_id) tuple of a ping: its stop-visit.
StopVisit(p) == <<p.journey_date, p.current_stop, p.trip_id, p.route_id>>

\* C11: two rows whose (date, current_stop, trip_id, route_id) tuples
\* differ never receive the same UID, also when trip_id or route_id holds
\* the separator, so build_realtime keeps one row for every distinct
\* stop-visit of the labelled pings.
C11_UIDIdentifiesStopVisit ==
    "build" \in rt_pc =>
        /\ \A p, q \in {x \in Range(realtime_dir) : IsLabelled(x)} :
              StopVisit(p) # StopVisit(q) => PingUID(p) # PingUID(q)
        /\ Cardinality(rt_df) =
              Cardinality({StopVisit(x) : x \in {y \in Range(realtime_dir) : IsLabelled(y)}})

----------------------------------------------------------------------------
(* Properties of the stop-level punctuality table *)

\* The matched stop events (rows of the joined schedule) at the stop k.
MatchedEventsAt(k) ==
    {r \in schedule : r.stop_id = k[1] /\ r.stop_lat = k[2] /\ r.stop_lon = k[3]}

\* The rows of the stop-level table for the stop k.
StopRowsAt(k) ==
    {g \in stop_punctuality :
        g.stop_id = k[1] /\ g.stop_lat = k[2] /\ g.stop_lon = k[3]}

\* C12: punctuality_by_stop returns exactly one row per (stop_id, stop_lat,
\* stop_lon) with at least one matched stop event, with service_stops the
\* number of its matched events (at least 1) and punctuality_rate the
\* punctual events over the matched events (within [0, 1]); a stop without
\* a matched event has no row.
C12_OneRowPerMatchedStop ==
    sched_pc = "done" =>
        /\ \A r \in schedule :
              Cardinality(StopRowsAt(<<r.stop_id, r.stop_lat, r.stop_lon>>)) = 1
        /\ \A g \in stop_punctuality :
              LET events == MatchedEventsAt(<<g.stop_id, g.stop_lat, g.stop_lon>>)
              IN  /\ events # {}
                  /\ g.service_stops = Cardinality(events)
                  /\ g.service_stops >= 1
                  /\ g.punctuality_rate[1] =
                        Cardinality({e \in events : e.punctual = 1})
                  /\ g.punctuality_rate[2] = Cardinality(events)
                  /\ 0 <= g.punctuality_rate[1]
                  /\ g.punctuality_rate[1] <= g.punctuality_rate[2]

\* One stop has two matched events, one of them punctual, while a stop of
\* the registry has none and no row.
C12_Witness ==
    /\ sched_pc = "done"
    /\ \E g \in stop_punctuality :
          g.service_stops = 2 /\ g.punctuality_rate = <<1, 2>>
    /\ \E st \in StopRegistry :
          /\ MatchedEventsAt(<<st.stop_id, st.stop_lat, st.stop_lon>>) = {}
          /\ StopRowsAt(<<st.stop_id, st.stop_lat, st.stop_lon>>) = {}

----------------------------------------------------------------------------
(* Properties of the geography merge *)

\* The merged row r carries the cells of the stop row s.
FromStopRow(r, s) ==
    /\ r.stop_id = s.stop_id /\ r.stop_lat = s.stop_lat /\ r.stop_lon = s.stop_lon
    /\ r.service_stops = s.service_stops
    /\ r.punctuality_rate = s.punctuality_rate

\* The lookup row l equals the row r on stop_id, stop_lat and stop_lon.
SameStopKey(l, r) ==
    l.stop_id = r.stop_id /\ l.stop_lat = r.stop_lat /\ l.stop_lon = r.stop_lon

\* C13: merge_geographies_with_stop_punctuality keeps every stop-level
\* punctuality row; a row takes the geography columns of a lookup row only
\* when stop_id, stop_lat and stop_lon are all equal, and a row without a
\* matching lookup row is kept with null geography columns.
C13_LeftJoinOnAllThree ==
    agg_pc \in {"merged", "reaggregated", "done"} =>
        /\ \A s \in stop_level_punctuality : \E r \in labelled : FromStopRow(r, s)
        /\ \A r \in labelled :
              /\ \E s \in stop_level_punctuality : FromStopRow(r, s)
              /\ \/ \E l \in geography_lookup_table :
                       SameStopKey(l, r) /\ l.code = r.code /\ l.name = r.name
                 \/ /\ r.code = NULL /\ r.name = NULL
                    /\ \A l \in geography_lookup_table : ~SameStopKey(l, r)

\* A stop whose stop_id the lookup holds under another latitude has been
\* merged: it is kept, with null geography columns.
C13_Witness ==
    /\ agg_pc = "merged"
    /\ \E r \in labelled :
          /\ r.code = NULL /\ r.name = NULL
          /\ \E l \in geography_lookup_table :
                l.stop_id = r.stop_id /\ l.stop_lat # r.stop_lat /\ l.code # NULL

\* C14: merge_geographies_with_stop_punctuality raises FileNotFoundError
\* whenever the stop-level punctuality file or the geography lookup file
\* does not exist, and returns no table, empty or partial, in that case.
C14_RaisesFileNotFound ==
    (agg_pc # "start" /\ stored_files # InputFiles) =>
        /\ agg_pc = "raised"
        /\ agg_raised = "FileNotFoundError"
        /\ labelled = NONE
        /\ geog_df = NONE
        /\ outdir = NONE

\* The merge has been called with the lookup file missing and has raised.
C14_Witness ==
    /\ agg_pc = "raised"
    /\ "geography_lookup_table" \notin stored_files
    /\ "stop_level_punctuality" \in stored_files
    /\ stop_level_punctuality # {}
    /\ agg_raised = "FileNotFoundError"

----------------------------------------------------------------------------
(* Properties of Time Normalization *)

----------------------------------------------------------------------------
(* Properties of the 24-hour filter *)

\* The stop times of the archive read whose arrival hour is 24 or more.
BeyondDayClock == {st \in tt_tables.stop_times : st.arrival_time[1] >= 24}

\* The row r is scheduled within the local calendar day d: from local
\* midnight of d up to but excluding the next local midnight (the dates of
\* the timetable model have 24 hours).
WithinLocalDay(r, d) ==
    /\ r.timetable_date = d
    /\ r.unix_arrival_time >= convert_SINGLE_datetime_to_unix(d)
    /\ r.unix_arrival_time < convert_SINGLE_datetime_to_unix(d) + 86400

\* C16: no service stop with an arrival hour of 24 or more survives the
\* Timetable Loader; such rows are dropped, not rolled over, before time
\* conversion, so every returned row is scheduled within the local
\* calendar day of the date the loader worked with.
C16_NoHourBeyond24 ==
    TimetableCallOk =>
        /\ \A r \in tt_loaded \cup tt_out.table :
              /\ r.arrival_time[1] < 24
              /\ WithinLocalDay(r, LoadDate)
        /\ \A st \in BeyondDayClock :
              \A r \in tt_loaded \cup tt_out.table :
                  ~(r.trip_id = st.trip_id /\ r.stop_sequence = st.stop_sequence)

\* A trip with an arrival at 25:10:00 has been loaded: its other stops
\* are returned.
C16_Witness ==
    /\ TimetableCallOk
    /\ \E st \in BeyondDayClock :
          /\ st.arrival_time = <<25, 10, 0>>
          /\ \E r \in tt_loaded : r.trip_id = st.trip_id

----------------------------------------------------------------------------
(* Properties of repeated timetable builds *)

\* The last two calls were build_timetable with the same region and date
\* on the same Schedule_Builder and timetable_dir.
BuiltTwice ==
    /\ n_calls >= 2
    /\ tt_call.op = "build_timetable"
    /\ tt_prev.call = tt_call

\* C17: running build_timetable twice on identical stored inputs yields the
\* same set of UIDs and the same row count, with no UID repeated in either
\* result.
C17_BuildTimetableIdempotent ==
    BuiltTwice =>
        /\ tt_prev.out.status = tt_out.status
        /\ UIDsOf(tt_prev.out.table) = UIDsOf(tt_out.table)
        /\ Cardinality(tt_prev.out.table) = Cardinality(tt_out.table)
        /\ Cardinality(tt_out.table) = Cardinality(UIDsOf(tt_out.table))
        /\ Cardinality(tt_prev.out.table) = Cardinality(UIDsOf(tt_prev.out.table))

\* Two builds of an archive that repeats a stop_sequence kept different
\* rows of the repeated UID and returned the same UIDs.
C17_Witness ==
    /\ BuiltTwice
    /\ tt_out.status = "ok"
    /\ tt_out.table # {}
    /\ tt_prev.out.table # tt_out.table

----------------------------------------------------------------------------
(* Properties of the Stop Registry Loader *)

\* The rows of the stops file with the stop_id of the returned stop r.
FileRowsOf(r) == {x \in fn_input.gb_stops : x.ATCOCode = r.stop_id}

\* C18: every stop returned by build_stops has status active, and no stop
\* with another status is returned.
C18_ActiveStopsOnly ==
    fn_pc = "done" =>
        \A r \in fn_output : \A x \in FileRowsOf(r) : x.Status = "active"

\* The same for utils.preprocessing.build_stops alone, which filters on
\* Status: it returns the active stops of the file and no other.
C18_UtilsVariant ==
    (fn_pc = "done" /\ fn_input.variant = "utils") =>
        {r.stop_id : r \in fn_output} =
            {x.ATCOCode : x \in {y \in fn_input.gb_stops : y.Status = "active"}}

\* C19: build_stops gives the converted easting/northing to every stop
\* whose latitude/longitude is missing and to no other; a stop with a
\* stored latitude/longitude keeps exactly that value.
C19_FillsMissingOnly ==
    fn_pc = "done" =>
        \A r \in fn_output : \A x \in FileRowsOf(r) :
            IF x.Latitude = NULL
            THEN /\ r.stop_lat = convert_lonlat(x.Easting, x.Northing)[2]
                 /\ r.stop_lon = convert_lonlat(x.Easting, x.Northing)[1]
            ELSE /\ r.stop_lat = x.Latitude
                 /\ r.stop_lon = x.Longitude

\* The same for bus_metrics.aggregation.preprocessing.build_stops alone,
\* which fills the nulls: missing coordinates get the converted value and
\* stored ones are kept.
C19_LoaderVariant ==
    (fn_pc = "done" /\ fn_input.variant = "bus_metrics") =>
        \A r \in fn_output : \A x \in FileRowsOf(r) :
            IF x.Latitude = NULL
            THEN /\ r.stop_lat = convert_lonlat(x.Easting, x.Northing)[2]
                 /\ r.stop_lon = convert_lonlat(x.Easting, x.Northing)[1]
            ELSE /\ r.stop_lat = x.Latitude
                 /\ r.stop_lon = x.Longitude

----------------------------------------------------------------------------
(* Tables handed from stage to stage *)

\* C20: after _reaggregate_punctuality(labelled) returns, the caller's
\* labelled table has the same columns and values as before the call, that
\* is, it is still the table merge_geographies_with_stop_punctuality
\* returned.
C20_LabelledUntouched ==
    agg_pc = "reaggregated" =>
        labelled = merge_geographies_with_stop_punctuality(
                       stop_level_punctuality, geography_lookup_table)

\* The same for the stops table passed to _build_lookup_tool: after the
\* call it has the three columns it had before.
C20_LookupStopsUntouched ==
    fn_pc = "done" => fn_input.stops \subseteq LookupStopsRows

----------------------------------------------------------------------------
(* Properties of the Static Data Ingest *)

\* C21: an ingest call whose target file already exists raises
\* FileExistsError with the message of its operation, makes no download
\* request and leaves the file unchanged; and no call changes any file that
\* existed before it, so a file keeps its first content.
C21_NeverOverwrites ==
    ing_call.op # "none" =>
        /\ path_exists(ing_call.files, ing_call.file) =>
              /\ ing_raised = FileExistsMessage(ing_call.op)
              /\ ing_requests = <<>>
        /\ \A f \in IngestFilenames :
              path_exists(ing_call.files, f) => ing_files[f] = ing_call.files[f]

\* A call on an existing file has raised, other upstream content being on
\* offer.
C21_Witness ==
    /\ ing_call.op # "none"
    /\ path_exists(ing_call.files, ing_call.file)
    /\ ing_raised = FileExistsMessage(ing_call.op)

\* A call of ingest_data_from_geoportal that found no file and stored one.
StoredBounds ==
    /\ ing_call.op = "ingest_data_from_geoportal"
    /\ ~path_exists(ing_call.files, ing_call.file)
    /\ ing_raised = NONE

\* The geography whose file the last call was to write.
CalledGeography == CHOOSE g \in Geographies : BoundsFilename(g) = ing_call.file

\* The requests of the last call start at the configured offset 0 and
\* advance by the page size, and the file holds every feature once.
PagedFromStart ==
    /\ \A i \in 1..Len(ing_requests) : ing_requests[i][2] = (i - 1) * PageSize
    /\ ing_files[ing_call.file].content =
           FeaturesFrom(0, ing_endpoint.n_features[CalledGeography],
                        ing_endpoint.n_features[CalledGeography])

\* C24: over any sequence of ingest_data_from_geoportal calls on one
\* instance, each call that stores a file requests pages from the
\* configured initial offset on, advancing by the page size, and the file
\* holds every feature of its endpoint exactly once.
C24_EachCallPagesFromStart == StoredBounds => PagedFromStart

\* The same for the calls made while the instance still holds the
\* configured offset.
C24_FirstDownload ==
    (StoredBounds /\ ing_call.resultOffset = 0) => PagedFromStart

----------------------------------------------------------------------------
(* Properties of unzip_GTFS *)

\* Some of the nine files is missing from txt_path before the call.
SomeTxtMissing == \E f \in TxtFiles : fn_input.txt[f] = MISSING

\* The archives of zip_path matching the pattern of the call.
Matching == MatchingZip(fn_input.zip, fn_input.region, fn_input.date)

\* C22: with a file missing, unzip_GTFS extracts an archive only if exactly
\* one archive matches the pattern, and then that one; with no match or
\* more than one it raises ValueError and extracts nothing; with all nine
\* files present it does nothing and raises nothing.
C22_ExtractsOnlyTheOneMatch ==
    fn_pc = "done" =>
        IF SomeTxtMissing
        THEN IF Cardinality(Matching) = 1
             THEN /\ ~fn_output.error
                  /\ \A f \in TxtFiles : fn_output.txt[f] \in Matching
             ELSE /\ fn_output.error
                  /\ fn_output.txt = fn_input.txt
        ELSE /\ ~fn_output.error
             /\ fn_output.txt = fn_input.txt

\* Two archives matched with a file missing, and the call raised.
C22_Witness ==
    /\ fn_pc = "done"
    /\ SomeTxtMissing
    /\ Cardinality(Matching) > 1
    /\ fn_output.error

\* One archive matched and was extracted over a partly filled txt_path.
C22_WitnessExtracted ==
    /\ fn_pc = "done"
    /\ SomeTxtMissing
    /\ \E f \in TxtFiles : fn_input.txt[f] = EARLIER
    /\ Cardinality(Matching) = 1
    /\ ~fn_output.error

----------------------------------------------------------------------------
(* The row build_realtime keeps *)

\* The labelled pings of the loaded frame.
LabelledPings == {x \in Range(realtime_dir) : IsLabelled(x)}

\* C23: build_realtime returns at most one row per UID; every returned row
\* is a labelled input ping, and it is one that no labelled input ping of
\* the same UID follows in the order (time_transpond, then time_ingest).
C23_KeepsGreatestPerUID ==
    "build" \in rt_pc =>
        /\ \A r, q \in rt_df : r.UID = q.UID => r = q
        /\ \A r \in rt_df :
              /\ r.trip_id # NULL /\ r.route_id # NULL
              /\ \E p \in LabelledPings :
                    /\ r = WithRealtimeUID(p)
                    /\ \A q \in LabelledPings :
                          PingUID(q) = PingUID(p) => ~LaterPing(q, p)

----------------------------------------------------------------------------
(* The date build_timetable works with *)

\* The last call was a build_timetable that returned a table.
BuiltTimetable ==
    /\ n_calls > 0
    /\ tt_call.op = "build_timetable"
    /\ tt_out.status = "ok"

\* The table returned and the tables read are those of the region and the
\* date the call was given.
OfCalledDate ==
    /\ \A r \in tt_out.table : r.timetable_date = tt_call.date
    /\ tt_tables =
          ReadTables([f \in TxtFiles |->
                         [region |-> tt_call.region, date |-> tt_call.date]],
                     gtfs_variant)

\* C25: build_timetable(stops, region, date) is scoped to its date
\* argument: every returned row has timetable_date equal to date and the
\* archive read is the one named for that region and date, also when date
\* is not the date the Schedule_Builder was constructed with.
C25_ScopedToDateArgument == BuiltTimetable => OfCalledDate

\* The same for the first call on a fresh directory with the date the
\* Schedule_Builder was constructed with.
C25_WhenDateIsSelfDate ==
    (BuiltTimetable /\ n_calls = 1 /\ tt_call.date = self_date) => OfCalledDate

----------------------------------------------------------------------------
(* Service stops through the aggregation *)

\* The lookup has at most one row per (stop_id, stop_lat, stop_lon).
UniqueLookup ==
    \A l, m \in geography_lookup_table :
        (l.stop_id = m.stop_id /\ l.stop_lat = m.stop_lat /\ l.stop_lon = m.stop_lon)
            => l = m

\* The stop rows read whose lookup row names a geography.
LabelledStops ==
    {x \in stop_level_punctuality :
        \E l \in LookupMatches(x, geography_lookup_table) :
            l.code # NULL /\ l.name # NULL}

\* C26 as stated: the service_stops of the rows punctuality_by_geography
\* returns sum to the service_stops of all stop rows read, stops without a
\* geography included, when the lookup has one row per stop at most.
C26_Original ==
    (agg_pc = "done" /\ geog_df.status = "ok" /\ UniqueLookup) =>
        SumColumn(geog_df.table, "service_stops")
            = SumColumn(stop_level_punctuality, "service_stops")

\* C26 as amended: the service_stops of the returned rows sum to the
\* service_stops of the stop rows whose lookup row has a code and a name;
\* the stops with no lookup row, or with a null code or name, are in no
\* returned row.
C26_ConservesLabelledStops ==
    (agg_pc = "done" /\ geog_df.status = "ok" /\ UniqueLookup) =>
        SumColumn(geog_df.table, "service_stops")
            = SumColumn(LabelledStops, "service_stops")

\* A stop without a geography and a stop with one, both with service, have
\* been aggregated.
C26_Witness ==
    /\ agg_pc = "done" /\ geog_df.status = "ok" /\ UniqueLookup
    /\ \E x \in stop_level_punctuality \ LabelledStops : x.service_stops > 0
    /\ \E x \in LabelledStops : x.service_stops > 0

----------------------------------------------------------------------------
(* The window on daylight-saving transition dates *)

\* The wall-clock arrival time lies from time_from minus 30 minutes up to
\* time_to plus 30 minutes (bounds in whole seconds, the upper one excluded).
WallClockInWindow ==
    /\ SecondsOfDay(fn_input.time) >= (fn_input.window[1] - 3600) \div 2
    /\ SecondsOfDay(fn_input.time) < (fn_input.window[2] + 3600) \div 2

\* C27: on every date, the two daylight-saving transition dates included,
\* the bounds build_timetable computes select exactly the service stops
\* whose local wall-clock arrival time lies between time_from minus 30
\* minutes and time_to plus 30 minutes.
C27_WindowIsWallClock ==
    (fn_pc = "done" /\ fn_output.status = "ok") =>
        (fn_output.selected <=> WallClockInWindow)

\* The same on the dates without a transition.
C27_OffTransitionDates ==
    (fn_pc = "done" /\ fn_output.status = "ok"
        /\ fn_input.date \in {"20240221", "20240701"}) =>
        (fn_output.selected <=> WallClockInWindow)

----------------------------------------------------------------------------
(* The two variants of the punctual flag *)

\* C28: for every value of relative_punctuality the punctual flag of
\* make_data punctuality_by_lsoa equals the flag of bus_metrics
\* punctuality_by_stop.
C28_VariantsAgree ==
    fn_pc = "done" => fn_output.make_data = fn_output.bus_metrics

\* The same for the values strictly between the two bounds.
C28_AgreeWithinBounds ==
    (fn_pc = "done" /\ fn_input.relative_punctuality > 0 - 300
        /\ fn_input.relative_punctuality < 60) =>
        fn_output.make_data = fn_output.bus_metrics

----------------------------------------------------------------------------
(* Ping files reaching the Realtime Loader *)

\* C29: a ping file parse_realtime wrote under its default name for the
\* region on day d is among the files load_raw_realtime_data(region, d)
\* concatenates.
C29_IngestedFilesAreLoaded ==
    (fn_pc = "done" /\ fn_input.load_region = fn_input.region
        /\ fn_input.load_date = fn_input.now_date) =>
        fn_output.written \in fn_output.tables

----------------------------------------------------------------------------
(* The stop-level table the aggregation reads *)

\* C30: after the Schedule Builder has persisted its stop-level table for
\* (region, date), a later aggregation run for that region reads exactly
\* that table, whatever the day on which it is executed.
C30_ReadsThePersistedTable ==
    fn_pc = "aggregated" =>
        /\ fn_output.read.status = "ok"
        /\ fn_output.read.table = fn_input.table

\* The same for an aggregation executed on the date of the table.
C30_WhenRunOnTheDate ==
    (fn_pc = "aggregated" /\ fn_input.today = fn_input.date) =>
        /\ fn_output.read.status = "ok"
        /\ fn_output.read.table = fn_input.table

====
